---------------------------- MODULE Spec2Model ----------------------------
(***************************************************************************)
(* A model of ffn/utils.py: the memoize decorator (_memoize, memoize) and  *)
(* the pure helpers parse_arg, clean_ticker, get_freq_name and scale.      *)
(*                                                                         *)
(* Python values are modelled by their literals as strings ("True", "7"),  *)
(* Python strings by the sequences of their code points, tuples and lists  *)
(* by sequences, and a keyword mapping by the sequence of its <<name,      *)
(* value>> pairs in insertion order (a dict keeps that order, and pickle   *)
(* writes it).                                                             *)
(***************************************************************************)
EXTENDS Integers, Sequences, FiniteSets, TLC

VARIABLES
    co_varnames,  \* func.__code__.co_varnames of the wrapped function
    heap,         \* the dicts memoize has created: identity -> contents
    mcache,       \* func.mcache: the identity of the function's cache dict
    mrefresh_keyword,  \* func.mrefresh_keyword
    pending,      \* threaded runs: the names of the memoize calls that have
                  \* run line 41 and not yet line 42, each with their number
    log,          \* history: one record per finished call of the wrapper
    thr,          \* threaded runs: each thread's position and locals
    nruns,        \* threaded runs: invocations of the wrapped function so far
    arg,          \* pure helpers: the input
    ret,          \* pure helpers: the returned value
    done          \* pure helpers: whether the function has been applied

vars ==
    <<co_varnames, heap, mcache, mrefresh_keyword, pending, log, thr, nruns,
      arg, ret, done>>

memoVars == <<co_varnames, heap, mcache, mrefresh_keyword, pending, log>>
thrVars == <<thr, nruns>>
pureVars == <<arg, ret, done>>

(***************************************************************************)
(* Bounds of the model.                                                    *)
(***************************************************************************)
MaxCalls == 3
MaxWraps == 2
NumThreads == 2
MaxArgLen == 4
MaxTickerLen == 4
MaxPeriodLen == 4

(***************************************************************************)
(* Python helpers used by _memoize.                                        *)
(***************************************************************************)
\* bool(v) for the modelled literals, as `if args[...]:` and `if kw[...]:` test it.
Truthy(v) == v \notin {"False", "0", "None"}

\* x in seq
In(x, seq) == \E i \in 1..Len(seq) : seq[i] = x

\* seq.index(x), 0-based as in Python: the first position holding x.
index(seq, x) ==
    (CHOOSE i \in 1..Len(seq) : seq[i] = x /\ \A j \in 1..(i - 1) : seq[j] # x) - 1

\* name in kw
KwHas(kw, name) == \E i \in 1..Len(kw) : kw[i][1] = name

\* kw[name]
KwGet(kw, name) == kw[CHOOSE i \in 1..Len(kw) : kw[i][1] = name][2]

\* memoize's default refresh_keyword, and the names memoize is given.
refresh_keyword == "mrefresh"
RefreshKeywords == {refresh_keyword, "x"}

(***************************************************************************)
(* pickle.dumps(obj, 1) as its opcode stream.                              *)
(***************************************************************************)
RECURSIVE Concat(_)
Concat(seqs) == IF seqs = <<>> THEN <<>> ELSE Head(seqs) \o Concat(Tail(seqs))

\* An int is BININT1 with its byte, a bool is INT 00 / 01 (protocol 1).
PickleVal(v) ==
    IF v = "True" THEN <<"I01">>
    ELSE IF v = "False" THEN <<"I00">>
    ELSE IF v = "None" THEN <<"N">>
    ELSE <<"K" \o v>>

\* A str is BINUNICODE with its text, then BINPUT of its memo slot.
PickleStr(s, slot) == <<"X" \o s, "q" \o ToString(slot)>>

\* () is EMPTY_TUPLE; another tuple is MARK, its items, TUPLE, BINPUT 0.
PickleTuple(args) ==
    IF args = <<>> THEN <<")", ".">>
    ELSE <<"(">> \o Concat([i \in 1..Len(args) |-> PickleVal(args[i])])
         \o <<"t", "q0", ".">>

\* {} is EMPTY_DICT, BINPUT 0; one item is added by SETITEM, several by
\* MARK ... SETITEMS, in the mapping's insertion order.
PickleDict(kw) ==
    LET items == Concat([i \in 1..Len(kw) |->
                     PickleStr(kw[i][1], i) \o PickleVal(kw[i][2])])
    IN  <<"}", "q0">>
        \o (IF Len(kw) = 0 THEN <<>>
            ELSE IF Len(kw) = 1 THEN items \o <<"s">>
            ELSE <<"(">> \o items \o <<"u">>)
        \o <<".">>

(***************************************************************************)
(* _memoize(func, *args, **kw)                                             *)
(***************************************************************************)
\* args[co_varnames.index(refresh_kw)] is out of range: IndexError.
RaisesIndexError(varnames, refresh_kw, args) ==
    /\ In(refresh_kw, varnames)
    /\ index(varnames, refresh_kw) >= Len(args)

\* The flag read from the positional arguments.
RefreshFromArgs(varnames, refresh_kw, args) ==
    /\ In(refresh_kw, varnames)
    /\ index(varnames, refresh_kw) < Len(args)
    /\ Truthy(args[index(varnames, refresh_kw) + 1])

\* The flag read from the keyword arguments.
RefreshFromKw(refresh_kw, kw) ==
    /\ KwHas(kw, refresh_kw)
    /\ Truthy(KwGet(kw, refresh_kw))

\* The value of `refresh` when the key is built.
refresh(varnames, refresh_kw, args, kw) ==
    \/ RefreshFromArgs(varnames, refresh_kw, args)
    \/ (~RefreshFromArgs(varnames, refresh_kw, args)
          /\ RefreshFromKw(refresh_kw, kw))

\* A key that leaves the keyword mapping out.
key_ArgsOnly(args, kw) == PickleTuple(args)

\* key = pickle.dumps(args, 1) + pickle.dumps(kw, 1)
key(args, kw) == PickleTuple(args) \o PickleDict(kw)

\* A lookup that never finds the key.
CacheHit_Never(r, k, cache) == FALSE

\* `not refresh and key in cache`
CacheHit(r, k, cache) == ~r /\ k \in DOMAIN cache

\* cache[key] = result
Store(cache, k, result) ==
    [x \in DOMAIN cache \cup {k} |-> IF x = k THEN result ELSE cache[x]]

\* The number of times the wrapped function has been invoked so far.
Runs(h) == Cardinality({i \in 1..Len(h) : h[i].ran})

\* A wrapper that reserves the key's entry before it invokes the function.
_memoize_StoreFirst(varnames, refresh_kw, cache, h, args, kw, raises) ==
    IF RaisesIndexError(varnames, refresh_kw, args)
    THEN [cache |-> cache, outcome |-> "IndexError", ran |-> FALSE, ret |-> 0,
          refresh |-> FALSE]
    ELSE LET r == refresh(varnames, refresh_kw, args, kw)
             k == key(args, kw)
         IN  IF CacheHit(r, k, cache)
             THEN [cache |-> cache, outcome |-> "returned", ran |-> FALSE,
                   ret |-> cache[k], refresh |-> r]
             ELSE IF raises
             THEN [cache |-> Store(cache, k, 0), outcome |-> "raised",
                   ran |-> TRUE, ret |-> 0, refresh |-> r]
             ELSE [cache |-> Store(cache, k, Runs(h) + 1),
                   outcome |-> "returned", ran |-> TRUE,
                   ret |-> Runs(h) + 1, refresh |-> r]

\* One call of the wrapper, start to end.  `raises` says whether the
\* wrapped function raises if it is invoked; its n-th invocation, when it
\* returns, yields n, so a fresh result differs from every stored one.
\* The record gives the call's effect: the new cache and what the caller
\* sees.
_memoize(varnames, refresh_kw, cache, h, args, kw, raises) ==
    IF RaisesIndexError(varnames, refresh_kw, args)
    THEN [cache |-> cache, outcome |-> "IndexError", ran |-> FALSE, ret |-> 0,
          refresh |-> FALSE]
    ELSE LET r == refresh(varnames, refresh_kw, args, kw)
             k == key(args, kw)
         IN  IF CacheHit(r, k, cache)
             THEN [cache |-> cache, outcome |-> "returned", ran |-> FALSE,
                   ret |-> cache[k], refresh |-> r]
             ELSE IF raises
             THEN [cache |-> cache, outcome |-> "raised", ran |-> TRUE,
                   ret |-> 0, refresh |-> r]
             ELSE [cache |-> Store(cache, k, Runs(h) + 1),
                   outcome |-> "returned", ran |-> TRUE,
                   ret |-> Runs(h) + 1, refresh |-> r]

\* The empty mapping (f.mcache = {}).
EmptyCache == [x \in {} |-> 0]

\* The shapes of wrapped function: def f(x, mrefresh=False) and
\* def f(x, *, mrefresh=False) both have co_varnames (x, mrefresh);
\* def f(x, **kwargs) takes the flag only through kwargs.
FuncShapes == {<<"x", "mrefresh">>, <<"x", "kwargs">>}

\* No call of memoize is between its two assignments.
NonePending == [kwname \in RefreshKeywords |-> 0]

\* The positional arguments and keyword mappings calls are made with.
ArgTuples == {<<"7">>, <<"7", "False">>, <<"7", "True">>}
KwMaps == {<<>>, << <<"mrefresh", "False">> >>, << <<"mrefresh", "True">> >>}

\* The function as its definition leaves it, `@memoize def f(...)`: line 41
\* has made its first dict and line 42 has set the default keyword.
Decorated ==
    /\ co_varnames \in FuncShapes
    /\ heap = <<EmptyCache>>
    /\ mcache = 1
    /\ mrefresh_keyword = refresh_keyword
    /\ pending = NonePending
    /\ log = <<>>

PureIdle == arg = <<>> /\ ret = <<>> /\ done = FALSE
MemoIdle ==
    /\ co_varnames = <<>> /\ heap = <<>> /\ mcache = 0
    /\ mrefresh_keyword = "" /\ pending = NonePending /\ log = <<>>
ThreadsIdle == thr = <<>> /\ nruns = 0

Init == Decorated /\ ThreadsIdle /\ PureIdle

\* memoize(f, refresh_keyword) applied to the function again: f.mcache is
\* bound to a new, empty dict and f.mrefresh_keyword to the name given.  The
\* dict bound before stays what it is; only a call that already holds it
\* can still reach it.  Wrappers made earlier read both attributes from f,
\* so they see the new ones.  With one thread of control the two
\* assignments are one step.
memoize(kwname) ==
    /\ Len(heap) < MaxWraps
    /\ Len(log) + Len(heap) < MaxCalls + 1
    /\ heap' = Append(heap, EmptyCache)
    /\ mcache' = Len(heap) + 1
    /\ mrefresh_keyword' = kwname
    /\ UNCHANGED <<co_varnames, pending, log, thrVars, pureVars>>

\* A call f(*args, **kw) of the memoized function.
Call(args, kw, raises) ==
    /\ Len(log) + Len(heap) < MaxCalls + 1
    /\ LET e == _memoize(co_varnames, mrefresh_keyword, heap[mcache], log,
                         args, kw, raises)
       IN  /\ heap' = [heap EXCEPT ![mcache] = e.cache]
           /\ log' = Append(log,
                  [args |-> args, kw |-> kw, key |-> key(args, kw),
                   flag |-> mrefresh_keyword, cache |-> mcache,
                   refresh |-> e.refresh, outcome |-> e.outcome,
                   ran |-> e.ran, ret |-> e.ret,
                   fraised |-> e.ran /\ raises,
                   before |-> heap[mcache], after |-> e.cache])
    /\ UNCHANGED <<co_varnames, mcache, mrefresh_keyword, pending, thrVars,
                   pureVars>>

Next ==
    \/ \E args \in ArgTuples, kw \in KwMaps, raises \in BOOLEAN :
           Call(args, kw, raises)
    \/ \E kwname \in RefreshKeywords : memoize(kwname)

Spec == Init /\ [][Next]_vars

(***************************************************************************)
(* Properties of the memoized calls (specification Spec).                  *)
(***************************************************************************)
\* A finished call that did not refresh and did not raise.
PlainReturned(e) == ~e.refresh /\ e.outcome = "returned"

\* Calls i and j were made on the same wrapping of the function: no
\* memoize was applied between them, so they worked on the same dict.
SameWrap(i, j) == log[i].cache = log[j].cache

\* The first plain, returning call with the key of call i on its wrapping.
FirstPlain(i) ==
    CHOOSE j \in 1..i :
        /\ SameWrap(i, j)
        /\ PlainReturned(log[j]) /\ log[j].key = log[i].key
        /\ \A m \in 1..(j - 1) :
               ~(SameWrap(i, m) /\ PlainReturned(log[m])
                   /\ log[m].key = log[i].key)

\* C1: for a function wrapped by memoize, among the calls made on that
\* wrapping that neither refresh nor raise, the wrapped function is invoked
\* exactly on the first call with each key; every later call with that key
\* returns the result the first one stored, without invoking the function;
\* and no call removes a key: a key stays in the dict it was stored in.
C1_OncePerKey ==
    /\ \A i \in 1..Len(log) :
           PlainReturned(log[i]) =>
               /\ log[i].ran <=> (FirstPlain(i) = i)
               /\ log[i].ret = log[FirstPlain(i)].ret
               /\ log[i].key \in DOMAIN log[i].after
               /\ log[i].after[log[i].key] = log[FirstPlain(i)].ret
    /\ \A i \in 1..Len(log) :
           /\ DOMAIN log[i].before \subseteq DOMAIN log[i].after
           /\ DOMAIN log[i].after \subseteq DOMAIN heap[log[i].cache]
           /\ \A j \in (i + 1)..Len(log) :
                  SameWrap(i, j) =>
                      DOMAIN log[i].after \subseteq DOMAIN log[j].before

\* A key is called twice without refresh, the function having been invoked
\* for another call in between: the second call returns the first result.
C1_Witness ==
    \E i, j, m \in 1..Len(log) :
        /\ i < m /\ m < j
        /\ SameWrap(i, j) /\ SameWrap(i, m)
        /\ PlainReturned(log[i]) /\ PlainReturned(log[j])
        /\ log[i].key = log[j].key
        /\ log[i].ran /\ ~log[j].ran
        /\ log[m].ran /\ log[m].outcome = "returned"
        /\ log[j].ret = log[i].ret /\ log[j].ret # log[m].ret

\* The refresh flag of call e is passed true, at the flag's position among
\* the positional arguments or as a keyword argument.
FlagPassedTrue(e) ==
    \/ /\ In(e.flag, co_varnames)
       /\ index(co_varnames, e.flag) < Len(e.args)
       /\ Truthy(e.args[index(co_varnames, e.flag) + 1])
    \/ /\ KwHas(e.kw, e.flag)
       /\ Truthy(KwGet(e.kw, e.flag))

\* C2: a call whose refresh flag is true, passed positionally or as a
\* keyword, always invokes the wrapped function, also when its key is
\* cached, and stores the fresh result.
C2_RefreshAlwaysInvokes ==
    \A i \in 1..Len(log) :
        FlagPassedTrue(log[i]) =>
            /\ log[i].ran
            /\ log[i].outcome = "returned" =>
                   /\ log[i].key \in DOMAIN log[i].after
                   /\ log[i].after[log[i].key] = log[i].ret

\* C3: when the wrapped function raises, the exception reaches the caller,
\* the cache is exactly what it was before the call, and the next call with
\* the same arguments invokes the wrapped function again.
C3_RaiseNotCached ==
    \A i \in 1..Len(log) :
        log[i].fraised =>
            /\ log[i].outcome = "raised"
            /\ log[i].after = log[i].before
            /\ (i < Len(log) /\ SameWrap(i, i + 1)
                  /\ log[i + 1].args = log[i].args
                  /\ log[i + 1].kw = log[i].kw) => log[i + 1].ran

\* The function raises on a call whose key is not cached, the cache holding
\* another entry, and the same call made again invokes it again and caches
\* the result.
C3_Witness ==
    \E i \in 1..Len(log) :
        /\ log[i].fraised /\ ~log[i].refresh /\ i < Len(log)
        /\ DOMAIN log[i].before # {}
        /\ SameWrap(i, i + 1)
        /\ log[i + 1].args = log[i].args /\ log[i + 1].kw = log[i].kw
        /\ log[i + 1].ran /\ log[i + 1].outcome = "returned"
        /\ log[i].key \in DOMAIN log[i + 1].after

\* The keyword mapping without its refresh entry.
WithoutFlag(kw, flag) == SelectSeq(kw, LAMBDA p : p[1] # flag)

\* Two calls on one wrapping with the same arguments apart from the refresh
\* flag.
SameButFlag(e1, e2) ==
    /\ e1.cache = e2.cache
    /\ Len(e1.args) = Len(e2.args)
    /\ \A p \in 1..Len(e1.args) :
           (In(e1.flag, co_varnames) /\ p = index(co_varnames, e1.flag) + 1)
           \/ e1.args[p] = e2.args[p]
    /\ WithoutFlag(e1.kw, e1.flag) = WithoutFlag(e2.kw, e1.flag)

\* C10: the key carries the flag's value, so a refresh call writes only the
\* entry of its own key, which is not the key of the same arguments with
\* the flag false; every other entry is unchanged, and a later call of the
\* same arguments without refresh still returns the value cached before.
C10_RefreshFrame ==
    \A i \in 1..Len(log) :
        (log[i].refresh /\ log[i].outcome = "returned") =>
            /\ DOMAIN log[i].after = DOMAIN log[i].before \cup {log[i].key}
            /\ \A k \in DOMAIN log[i].before :
                   k # log[i].key => log[i].after[k] = log[i].before[k]
            /\ \A j \in 1..Len(log) :
                   (SameButFlag(log[i], log[j]) /\ PlainReturned(log[j])) =>
                       /\ log[j].key # log[i].key
                       /\ (j > i /\ log[j].key \in DOMAIN log[i].before) =>
                              /\ ~log[j].ran
                              /\ log[j].ret = log[i].before[log[j].key]

\* A value is cached without refresh, the same arguments are refreshed,
\* and a third call without refresh returns the first value.
C10_Witness ==
    \E h, i, j \in 1..Len(log) :
        /\ h < i /\ i < j
        /\ log[h].cache = log[i].cache
        /\ PlainReturned(log[h]) /\ log[h].ran
        /\ log[i].refresh /\ log[i].outcome = "returned"
        /\ SameButFlag(log[i], log[j])
        /\ PlainReturned(log[j]) /\ log[j].key = log[h].key
        /\ log[j].ret = log[h].ret /\ log[j].ret # log[i].ret

(***************************************************************************)
(* Threads calling the memoized function at once.  The wrapper takes no    *)
(* lock, so a thread can be preempted between any two of its steps: after  *)
(* building the key, after the lookup, after the wrapped function returns. *)
(* Each thread makes one call.                                             *)
(***************************************************************************)
Threads == 1..NumThreads

IdleThread ==
    [pc |-> "idle", args |-> <<>>, kw |-> <<>>, refresh |-> FALSE,
     key |-> <<>>, cache |-> 0, missed |-> FALSE, ran |-> FALSE,
     result |-> 0]

\* The calls the threads make, as <<args, kw>>.
ThreadCalls ==
    {<< <<"7">>, <<>> >>, << <<"7">>, << <<"mrefresh", "True">> >> >>}

InitThreads ==
    /\ Decorated
    /\ thr = [t \in Threads |-> IdleThread]
    /\ nruns = 0
    /\ PureIdle

\* Lines 13-26: refresh_kw is read from the function; refresh and key are
\* locals of the call.
T_Call(t, args, kw) ==
    /\ thr[t].pc = "idle"
    /\ thr' = [thr EXCEPT ![t] =
                 IF RaisesIndexError(co_varnames, mrefresh_keyword, args)
                 THEN [@ EXCEPT !.pc = "IndexError", !.args = args, !.kw = kw]
                 ELSE [@ EXCEPT !.pc = "getcache", !.args = args, !.kw = kw,
                                !.refresh = refresh(co_varnames,
                                                mrefresh_keyword, args, kw),
                                !.key = key(args, kw)]]
    /\ UNCHANGED <<memoVars, nruns, pureVars>>

\* Line 28: `cache = func.mcache`, the dict the call works on from here.
T_GetCache(t) ==
    /\ thr[t].pc = "getcache"
    /\ thr' = [thr EXCEPT ![t] = [@ EXCEPT !.pc = "lookup", !.cache = mcache]]
    /\ UNCHANGED <<memoVars, nruns, pureVars>>

\* Line 29: `if not refresh and key in cache`.
T_Lookup(t) ==
    /\ thr[t].pc = "lookup"
    /\ thr' = [thr EXCEPT ![t] =
                 [@ EXCEPT !.pc = IF CacheHit(thr[t].refresh, thr[t].key,
                                              heap[thr[t].cache])
                                  THEN "hit" ELSE "invoke",
                           !.missed =
                               thr[t].key \notin DOMAIN heap[thr[t].cache]]]
    /\ UNCHANGED <<memoVars, nruns, pureVars>>

\* Line 30: `return cache[key]`.
T_ReturnHit(t) ==
    /\ thr[t].pc = "hit"
    /\ thr' = [thr EXCEPT ![t] =
                 [@ EXCEPT !.pc = "returned",
                           !.result = heap[thr[t].cache][thr[t].key]]]
    /\ UNCHANGED <<memoVars, nruns, pureVars>>

\* Line 32, right-hand side: func(*args, **kw) returns or raises.
T_Invoke(t, raises) ==
    /\ thr[t].pc = "invoke"
    /\ nruns' = nruns + 1
    /\ thr' = [thr EXCEPT ![t] =
                 IF raises
                 THEN [@ EXCEPT !.pc = "raised", !.ran = TRUE]
                 ELSE [@ EXCEPT !.pc = "store", !.ran = TRUE,
                                !.result = nruns + 1]]
    /\ UNCHANGED <<memoVars, pureVars>>

\* Lines 32-33: `cache[key] = result`, `return result`.
T_Store(t) ==
    /\ thr[t].pc = "store"
    /\ heap' = [heap EXCEPT ![thr[t].cache] =
                   Store(@, thr[t].key, thr[t].result)]
    /\ thr' = [thr EXCEPT ![t] = [@ EXCEPT !.pc = "returned"]]
    /\ UNCHANGED <<co_varnames, mcache, mrefresh_keyword, pending, log,
                   nruns, pureVars>>

\* memoize(f, refresh_keyword) applied by some thread while the others
\* call: its two assignments are two steps, and any step of any thread,
\* another memoize included, can come between them.
\* Line 41: `f.mcache = {}`.
memoize_mcache(kwname) ==
    /\ Len(heap) < MaxWraps
    /\ heap' = Append(heap, EmptyCache)
    /\ mcache' = Len(heap) + 1
    /\ pending' = [pending EXCEPT ![kwname] = @ + 1]
    /\ UNCHANGED <<co_varnames, mrefresh_keyword, log, thrVars, pureVars>>

\* Line 42: `f.mrefresh_keyword = refresh_keyword`.
memoize_mrefresh_keyword(kwname) ==
    /\ pending[kwname] > 0
    /\ mrefresh_keyword' = kwname
    /\ pending' = [pending EXCEPT ![kwname] = @ - 1]
    /\ UNCHANGED <<co_varnames, heap, mcache, log, thrVars, pureVars>>

NextThreads ==
    \/ \E t \in Threads :
           \/ \E c \in ThreadCalls : T_Call(t, c[1], c[2])
           \/ T_GetCache(t)
           \/ T_Lookup(t)
           \/ T_ReturnHit(t)
           \/ \E raises \in BOOLEAN : T_Invoke(t, raises)
           \/ T_Store(t)
    \/ \E kwname \in RefreshKeywords :
           \/ memoize_mcache(kwname)
           \/ memoize_mrefresh_keyword(kwname)

SpecThreads == InitThreads /\ [][NextThreads]_vars

\* The threads that invoked the wrapped function for key k of dict c
\* without refresh.
Invokers(k, c) ==
    {t \in Threads :
        thr[t].key = k /\ thr[t].cache = c /\ thr[t].ran /\ ~thr[t].refresh}

\* C9: the lookup and the store are separate steps and nothing excludes
\* another thread between them: what lets a call without refresh invoke the
\* wrapped function is only that its own lookup missed, whatever the other
\* threads have started or stored since, and a call whose lookup found the
\* key returns a value some thread stored for that key.  So one key can
\* have as many invocations as lookups that missed (C9_Witness: two).
C9_LookupThenStore ==
    \A t \in Threads :
        /\ (thr[t].ran /\ ~thr[t].refresh) => thr[t].missed
        /\ (thr[t].pc \in {"hit", "returned"} /\ ~thr[t].ran) =>
               /\ ~thr[t].missed /\ ~thr[t].refresh
               /\ \E u \in Threads \ {t} :
                      /\ thr[u].key = thr[t].key /\ thr[u].ran
                      /\ thr[u].cache = thr[t].cache
                      /\ thr[t].pc = "returned" => thr[u].result = thr[t].result

\* Two threads called with identical arguments and no refresh, both lookups
\* missed in the same dict, the wrapped function was invoked once for each,
\* neither raised, and both returned: two invocations, with different
\* results, for one key.
C9_Witness ==
    \E t, u \in Threads :
        /\ t # u
        /\ thr[t].args = thr[u].args /\ thr[t].kw = thr[u].kw
        /\ thr[t].key = thr[u].key /\ thr[t].cache = thr[u].cache
        /\ ~thr[t].refresh /\ ~thr[u].refresh
        /\ thr[t].pc = "returned" /\ thr[u].pc = "returned"
        /\ thr[t].missed /\ thr[u].missed
        /\ Cardinality(Invokers(thr[t].key, thr[t].cache)) >= 2
        /\ thr[t].result # thr[u].result

(***************************************************************************)
(* Strings.  A Python str is the sequence of its code points, ord(c) for   *)
(* each character c.  The tables of this section are those of Unicode      *)
(* 14.0.0, the version the interpreter's str methods and re module follow  *)
(* (unicodedata.unidata_version).                                          *)
(***************************************************************************)
\* The ASCII characters U+0020 to U+005F and U+0061 to U+007E, in order.
AsciiLow ==
    <<" ", "!", "\"", "#", "$", "%", "&", "'", "(", ")", "*", "+", ",", "-",
      ".", "/", "0", "1", "2", "3", "4", "5", "6", "7", "8", "9", ":", ";",
      "<", "=", ">", "?", "@", "A", "B", "C", "D", "E", "F", "G", "H", "I",
      "J", "K", "L", "M", "N", "O", "P", "Q", "R", "S", "T", "U", "V", "W",
      "X", "Y", "Z", "[", "\\", "]", "^", "_">>
AsciiHigh ==
    <<"a", "b", "c", "d", "e", "f", "g", "h", "i", "j", "k", "l", "m", "n",
      "o", "p", "q", "r", "s", "t", "u", "v", "w", "x", "y", "z", "{", "|",
      "}", "~">>

\* ord(c) for an ASCII character written as a one-character string.
ord(c) ==
    IF In(c, AsciiLow) THEN 32 + index(AsciiLow, c)
    ELSE 97 + index(AsciiHigh, c)

\* The str whose characters are the given ASCII characters.
Str(chars) == [i \in 1..Len(chars) |-> ord(chars[i])]

\* The number of entries of the table tab, sorted by the code point its
\* entries begin with, that begin at or below c: a binary search between
\* lo, whose entries begin at or below c, and hi, after which none does.
RECURSIVE Locate(_, _, _, _)
Locate(tab, c, lo, hi) ==
    IF lo = hi THEN lo
    ELSE IF tab[(lo + hi + 1) \div 2][1] <= c
    THEN Locate(tab, c, (lo + hi + 1) \div 2, hi)
    ELSE Locate(tab, c, lo, (lo + hi + 1) \div 2 - 1)

\* c lies in one of the ranges <<first, last>> of tab.
InRanges(tab, c) ==
    LET i == Locate(tab, c, 0, Len(tab))
    IN  i > 0 /\ c <= tab[i][2]

\* The amount a table of runs <<first, last, step, delta>> moves c by:
\* delta for first, first + step, ..., last, and 0 for every other c.
RunDelta(tab, c) ==
    LET i == Locate(tab, c, 0, Len(tab))
    IN  IF i > 0 /\ c <= tab[i][2] /\ (c - tab[i][1]) % tab[i][3] = 0
        THEN tab[i][4] ELSE 0

\* The code points a table of entries <<c, code points>> gives for c,
\* <<>> when it has no entry for c.
Special(tab, c) ==
    LET i == Locate(tab, c, 0, Len(tab))
    IN  IF i > 0 /\ tab[i][1] = c THEN tab[i][2] ELSE <<>>

\* The characters str.strip() removes, those for which str.isspace()
\* holds: TAB, LF, VT, FF, CR, the separators FS, GS, RS, US, the space,
\* NEL (U+0085), the no-break space (U+00A0), the ogham space mark
\* (U+1680), U+2000 to U+200A, the line and paragraph separators, the
\* narrow no-break space (U+202F), the medium mathematical space (U+205F)
\* and the ideographic space (U+3000).
Whitespace ==
    {9, 10, 11, 12, 13, 28, 29, 30, 31, 32, 133, 160, 5760, 8232, 8233,
     8239, 8287, 12288} \cup (8192..8202)

\* The ranges of the characters str.isalnum() holds for: the letters and
\* the decimal, digit and numeric characters of every script.
AlnumRanges ==
    << <<48, 57>>, <<65, 90>>, <<97, 122>>, <<170, 170>>, <<178, 179>>,
       <<181, 181>>, <<185, 186>>, <<188, 190>>, <<192, 214>>, <<216, 246>>,
       <<248, 705>>, <<710, 721>>, <<736, 740>>, <<748, 748>>, <<750, 750>>,
       <<880, 884>>, <<886, 887>>, <<890, 893>>, <<895, 895>>, <<902, 902>>,
       <<904, 906>>, <<908, 908>>, <<910, 929>>, <<931, 1013>>,
       <<1015, 1153>>, <<1162, 1327>>, <<1329, 1366>>, <<1369, 1369>>,
       <<1376, 1416>>, <<1488, 1514>>, <<1519, 1522>>, <<1568, 1610>>,
       <<1632, 1641>>, <<1646, 1647>>, <<1649, 1747>>, <<1749, 1749>>,
       <<1765, 1766>>, <<1774, 1788>>, <<1791, 1791>>, <<1808, 1808>>,
       <<1810, 1839>>, <<1869, 1957>>, <<1969, 1969>>, <<1984, 2026>>,
       <<2036, 2037>>, <<2042, 2042>>, <<2048, 2069>>, <<2074, 2074>>,
       <<2084, 2084>>, <<2088, 2088>>, <<2112, 2136>>, <<2144, 2154>>,
       <<2160, 2183>>, <<2185, 2190>>, <<2208, 2249>>, <<2308, 2361>>,
       <<2365, 2365>>, <<2384, 2384>>, <<2392, 2401>>, <<2406, 2415>>,
       <<2417, 2432>>, <<2437, 2444>>, <<2447, 2448>>, <<2451, 2472>>,
       <<2474, 2480>>, <<2482, 2482>>, <<2486, 2489>>, <<2493, 2493>>,
       <<2510, 2510>>, <<2524, 2525>>, <<2527, 2529>>, <<2534, 2545>>,
       <<2548, 2553>>, <<2556, 2556>>, <<2565, 2570>>, <<2575, 2576>>,
       <<2579, 2600>>, <<2602, 2608>>, <<2610, 2611>>, <<2613, 2614>>,
       <<2616, 2617>>, <<2649, 2652>>, <<2654, 2654>>, <<2662, 2671>>,
       <<2674, 2676>>, <<2693, 2701>>, <<2703, 2705>>, <<2707, 2728>>,
       <<2730, 2736>>, <<2738, 2739>>, <<2741, 2745>>, <<2749, 2749>>,
       <<2768, 2768>>, <<2784, 2785>>, <<2790, 2799>>, <<2809, 2809>>,
       <<2821, 2828>>, <<2831, 2832>>, <<2835, 2856>>, <<2858, 2864>>,
       <<2866, 2867>>, <<2869, 2873>>, <<2877, 2877>>, <<2908, 2909>>,
       <<2911, 2913>>, <<2918, 2927>>, <<2929, 2935>>, <<2947, 2947>>,
       <<2949, 2954>>, <<2958, 2960>>, <<2962, 2965>>, <<2969, 2970>>,
       <<2972, 2972>>, <<2974, 2975>>, <<2979, 2980>>, <<2984, 2986>>,
       <<2990, 3001>>, <<3024, 3024>>, <<3046, 3058>>, <<3077, 3084>>,
       <<3086, 3088>>, <<3090, 3112>>, <<3114, 3129>>, <<3133, 3133>>,
       <<3160, 3162>>, <<3165, 3165>>, <<3168, 3169>>, <<3174, 3183>>,
       <<3192, 3198>>, <<3200, 3200>>, <<3205, 3212>>, <<3214, 3216>>,
       <<3218, 3240>>, <<3242, 3251>>, <<3253, 3257>>, <<3261, 3261>>,
       <<3293, 3294>>, <<3296, 3297>>, <<3302, 3311>>, <<3313, 3314>>,
       <<3332, 3340>>, <<3342, 3344>>, <<3346, 3386>>, <<3389, 3389>>,
       <<3406, 3406>>, <<3412, 3414>>, <<3416, 3425>>, <<3430, 3448>>,
       <<3450, 3455>>, <<3461, 3478>>, <<3482, 3505>>, <<3507, 3515>>,
       <<3517, 3517>>, <<3520, 3526>>, <<3558, 3567>>, <<3585, 3632>>,
       <<3634, 3635>>, <<3648, 3654>>, <<3664, 3673>>, <<3713, 3714>>,
       <<3716, 3716>>, <<3718, 3722>>, <<3724, 3747>>, <<3749, 3749>>,
       <<3751, 3760>>, <<3762, 3763>>, <<3773, 3773>>, <<3776, 3780>>,
       <<3782, 3782>>, <<3792, 3801>>, <<3804, 3807>>, <<3840, 3840>>,
       <<3872, 3891>>, <<3904, 3911>>, <<3913, 3948>>, <<3976, 3980>>,
       <<4096, 4138>>, <<4159, 4169>>, <<4176, 4181>>, <<4186, 4189>>,
       <<4193, 4193>>, <<4197, 4198>>, <<4206, 4208>>, <<4213, 4225>>,
       <<4238, 4238>>, <<4240, 4249>>, <<4256, 4293>>, <<4295, 4295>>,
       <<4301, 4301>>, <<4304, 4346>>, <<4348, 4680>>, <<4682, 4685>>,
       <<4688, 4694>>, <<4696, 4696>>, <<4698, 4701>>, <<4704, 4744>>,
       <<4746, 4749>>, <<4752, 4784>>, <<4786, 4789>>, <<4792, 4798>>,
       <<4800, 4800>>, <<4802, 4805>>, <<4808, 4822>>, <<4824, 4880>>,
       <<4882, 4885>>, <<4888, 4954>>, <<4969, 4988>>, <<4992, 5007>>,
       <<5024, 5109>>, <<5112, 5117>>, <<5121, 5740>>, <<5743, 5759>>,
       <<5761, 5786>>, <<5792, 5866>>, <<5870, 5880>>, <<5888, 5905>>,
       <<5919, 5937>>, <<5952, 5969>>, <<5984, 5996>>, <<5998, 6000>>,
       <<6016, 6067>>, <<6103, 6103>>, <<6108, 6108>>, <<6112, 6121>>,
       <<6128, 6137>>, <<6160, 6169>>, <<6176, 6264>>, <<6272, 6276>>,
       <<6279, 6312>>, <<6314, 6314>>, <<6320, 6389>>, <<6400, 6430>>,
       <<6470, 6509>>, <<6512, 6516>>, <<6528, 6571>>, <<6576, 6601>>,
       <<6608, 6618>>, <<6656, 6678>>, <<6688, 6740>>, <<6784, 6793>>,
       <<6800, 6809>>, <<6823, 6823>>, <<6917, 6963>>, <<6981, 6988>>,
       <<6992, 7001>>, <<7043, 7072>>, <<7086, 7141>>, <<7168, 7203>>,
       <<7232, 7241>>, <<7245, 7293>>, <<7296, 7304>>, <<7312, 7354>>,
       <<7357, 7359>>, <<7401, 7404>>, <<7406, 7411>>, <<7413, 7414>>,
       <<7418, 7418>>, <<7424, 7615>>, <<7680, 7957>>, <<7960, 7965>>,
       <<7968, 8005>>, <<8008, 8013>>, <<8016, 8023>>, <<8025, 8025>>,
       <<8027, 8027>>, <<8029, 8029>>, <<8031, 8061>>, <<8064, 8116>>,
       <<8118, 8124>>, <<8126, 8126>>, <<8130, 8132>>, <<8134, 8140>>,
       <<8144, 8147>>, <<8150, 8155>>, <<8160, 8172>>, <<8178, 8180>>,
       <<8182, 8188>>, <<8304, 8305>>, <<8308, 8313>>, <<8319, 8329>>,
       <<8336, 8348>>, <<8450, 8450>>, <<8455, 8455>>, <<8458, 8467>>,
       <<8469, 8469>>, <<8473, 8477>>, <<8484, 8484>>, <<8486, 8486>>,
       <<8488, 8488>>, <<8490, 8493>>, <<8495, 8505>>, <<8508, 8511>>,
       <<8517, 8521>>, <<8526, 8526>>, <<8528, 8585>>, <<9312, 9371>>,
       <<9450, 9471>>, <<10102, 10131>>, <<11264, 11492>>, <<11499, 11502>>,
       <<11506, 11507>>, <<11517, 11517>>, <<11520, 11557>>,
       <<11559, 11559>>, <<11565, 11565>>, <<11568, 11623>>,
       <<11631, 11631>>, <<11648, 11670>>, <<11680, 11686>>,
       <<11688, 11694>>, <<11696, 11702>>, <<11704, 11710>>,
       <<11712, 11718>>, <<11720, 11726>>, <<11728, 11734>>,
       <<11736, 11742>>, <<11823, 11823>>, <<12293, 12295>>,
       <<12321, 12329>>, <<12337, 12341>>, <<12344, 12348>>,
       <<12353, 12438>>, <<12445, 12447>>, <<12449, 12538>>,
       <<12540, 12543>>, <<12549, 12591>>, <<12593, 12686>>,
       <<12690, 12693>>, <<12704, 12735>>, <<12784, 12799>>,
       <<12832, 12841>>, <<12872, 12879>>, <<12881, 12895>>,
       <<12928, 12937>>, <<12977, 12991>>, <<13312, 19903>>,
       <<19968, 42124>>, <<42192, 42237>>, <<42240, 42508>>,
       <<42512, 42539>>, <<42560, 42606>>, <<42623, 42653>>,
       <<42656, 42735>>, <<42775, 42783>>, <<42786, 42888>>,
       <<42891, 42954>>, <<42960, 42961>>, <<42963, 42963>>,
       <<42965, 42969>>, <<42994, 43009>>, <<43011, 43013>>,
       <<43015, 43018>>, <<43020, 43042>>, <<43056, 43061>>,
       <<43072, 43123>>, <<43138, 43187>>, <<43216, 43225>>,
       <<43250, 43255>>, <<43259, 43259>>, <<43261, 43262>>,
       <<43264, 43301>>, <<43312, 43334>>, <<43360, 43388>>,
       <<43396, 43442>>, <<43471, 43481>>, <<43488, 43492>>,
       <<43494, 43518>>, <<43520, 43560>>, <<43584, 43586>>,
       <<43588, 43595>>, <<43600, 43609>>, <<43616, 43638>>,
       <<43642, 43642>>, <<43646, 43695>>, <<43697, 43697>>,
       <<43701, 43702>>, <<43705, 43709>>, <<43712, 43712>>,
       <<43714, 43714>>, <<43739, 43741>>, <<43744, 43754>>,
       <<43762, 43764>>, <<43777, 43782>>, <<43785, 43790>>,
       <<43793, 43798>>, <<43808, 43814>>, <<43816, 43822>>,
       <<43824, 43866>>, <<43868, 43881>>, <<43888, 44002>>,
       <<44016, 44025>>, <<44032, 55203>>, <<55216, 55238>>,
       <<55243, 55291>>, <<63744, 64109>>, <<64112, 64217>>,
       <<64256, 64262>>, <<64275, 64279>>, <<64285, 64285>>,
       <<64287, 64296>>, <<64298, 64310>>, <<64312, 64316>>,
       <<64318, 64318>>, <<64320, 64321>>, <<64323, 64324>>,
       <<64326, 64433>>, <<64467, 64829>>, <<64848, 64911>>,
       <<64914, 64967>>, <<65008, 65019>>, <<65136, 65140>>,
       <<65142, 65276>>, <<65296, 65305>>, <<65313, 65338>>,
       <<65345, 65370>>, <<65382, 65470>>, <<65474, 65479>>,
       <<65482, 65487>>, <<65490, 65495>>, <<65498, 65500>>,
       <<65536, 65547>>, <<65549, 65574>>, <<65576, 65594>>,
       <<65596, 65597>>, <<65599, 65613>>, <<65616, 65629>>,
       <<65664, 65786>>, <<65799, 65843>>, <<65856, 65912>>,
       <<65930, 65931>>, <<66176, 66204>>, <<66208, 66256>>,
       <<66273, 66299>>, <<66304, 66339>>, <<66349, 66378>>,
       <<66384, 66421>>, <<66432, 66461>>, <<66464, 66499>>,
       <<66504, 66511>>, <<66513, 66517>>, <<66560, 66717>>,
       <<66720, 66729>>, <<66736, 66771>>, <<66776, 66811>>,
       <<66816, 66855>>, <<66864, 66915>>, <<66928, 66938>>,
       <<66940, 66954>>, <<66956, 66962>>, <<66964, 66965>>,
       <<66967, 66977>>, <<66979, 66993>>, <<66995, 67001>>,
       <<67003, 67004>>, <<67072, 67382>>, <<67392, 67413>>,
       <<67424, 67431>>, <<67456, 67461>>, <<67463, 67504>>,
       <<67506, 67514>>, <<67584, 67589>>, <<67592, 67592>>,
       <<67594, 67637>>, <<67639, 67640>>, <<67644, 67644>>,
       <<67647, 67669>>, <<67672, 67702>>, <<67705, 67742>>,
       <<67751, 67759>>, <<67808, 67826>>, <<67828, 67829>>,
       <<67835, 67867>>, <<67872, 67897>>, <<67968, 68023>>,
       <<68028, 68047>>, <<68050, 68096>>, <<68112, 68115>>,
       <<68117, 68119>>, <<68121, 68149>>, <<68160, 68168>>,
       <<68192, 68222>>, <<68224, 68255>>, <<68288, 68295>>,
       <<68297, 68324>>, <<68331, 68335>>, <<68352, 68405>>,
       <<68416, 68437>>, <<68440, 68466>>, <<68472, 68497>>,
       <<68521, 68527>>, <<68608, 68680>>, <<68736, 68786>>,
       <<68800, 68850>>, <<68858, 68899>>, <<68912, 68921>>,
       <<69216, 69246>>, <<69248, 69289>>, <<69296, 69297>>,
       <<69376, 69415>>, <<69424, 69445>>, <<69457, 69460>>,
       <<69488, 69505>>, <<69552, 69579>>, <<69600, 69622>>,
       <<69635, 69687>>, <<69714, 69743>>, <<69745, 69746>>,
       <<69749, 69749>>, <<69763, 69807>>, <<69840, 69864>>,
       <<69872, 69881>>, <<69891, 69926>>, <<69942, 69951>>,
       <<69956, 69956>>, <<69959, 69959>>, <<69968, 70002>>,
       <<70006, 70006>>, <<70019, 70066>>, <<70081, 70084>>,
       <<70096, 70106>>, <<70108, 70108>>, <<70113, 70132>>,
       <<70144, 70161>>, <<70163, 70187>>, <<70272, 70278>>,
       <<70280, 70280>>, <<70282, 70285>>, <<70287, 70301>>,
       <<70303, 70312>>, <<70320, 70366>>, <<70384, 70393>>,
       <<70405, 70412>>, <<70415, 70416>>, <<70419, 70440>>,
       <<70442, 70448>>, <<70450, 70451>>, <<70453, 70457>>,
       <<70461, 70461>>, <<70480, 70480>>, <<70493, 70497>>,
       <<70656, 70708>>, <<70727, 70730>>, <<70736, 70745>>,
       <<70751, 70753>>, <<70784, 70831>>, <<70852, 70853>>,
       <<70855, 70855>>, <<70864, 70873>>, <<71040, 71086>>,
       <<71128, 71131>>, <<71168, 71215>>, <<71236, 71236>>,
       <<71248, 71257>>, <<71296, 71338>>, <<71352, 71352>>,
       <<71360, 71369>>, <<71424, 71450>>, <<71472, 71483>>,
       <<71488, 71494>>, <<71680, 71723>>, <<71840, 71922>>,
       <<71935, 71942>>, <<71945, 71945>>, <<71948, 71955>>,
       <<71957, 71958>>, <<71960, 71983>>, <<71999, 71999>>,
       <<72001, 72001>>, <<72016, 72025>>, <<72096, 72103>>,
       <<72106, 72144>>, <<72161, 72161>>, <<72163, 72163>>,
       <<72192, 72192>>, <<72203, 72242>>, <<72250, 72250>>,
       <<72272, 72272>>, <<72284, 72329>>, <<72349, 72349>>,
       <<72368, 72440>>, <<72704, 72712>>, <<72714, 72750>>,
       <<72768, 72768>>, <<72784, 72812>>, <<72818, 72847>>,
       <<72960, 72966>>, <<72968, 72969>>, <<72971, 73008>>,
       <<73030, 73030>>, <<73040, 73049>>, <<73056, 73061>>,
       <<73063, 73064>>, <<73066, 73097>>, <<73112, 73112>>,
       <<73120, 73129>>, <<73440, 73458>>, <<73648, 73648>>,
       <<73664, 73684>>, <<73728, 74649>>, <<74752, 74862>>,
       <<74880, 75075>>, <<77712, 77808>>, <<77824, 78894>>,
       <<82944, 83526>>, <<92160, 92728>>, <<92736, 92766>>,
       <<92768, 92777>>, <<92784, 92862>>, <<92864, 92873>>,
       <<92880, 92909>>, <<92928, 92975>>, <<92992, 92995>>,
       <<93008, 93017>>, <<93019, 93025>>, <<93027, 93047>>,
       <<93053, 93071>>, <<93760, 93846>>, <<93952, 94026>>,
       <<94032, 94032>>, <<94099, 94111>>, <<94176, 94177>>,
       <<94179, 94179>>, <<94208, 100343>>, <<100352, 101589>>,
       <<101632, 101640>>, <<110576, 110579>>, <<110581, 110587>>,
       <<110589, 110590>>, <<110592, 110882>>, <<110928, 110930>>,
       <<110948, 110951>>, <<110960, 111355>>, <<113664, 113770>>,
       <<113776, 113788>>, <<113792, 113800>>, <<113808, 113817>>,
       <<119520, 119539>>, <<119648, 119672>>, <<119808, 119892>>,
       <<119894, 119964>>, <<119966, 119967>>, <<119970, 119970>>,
       <<119973, 119974>>, <<119977, 119980>>, <<119982, 119993>>,
       <<119995, 119995>>, <<119997, 120003>>, <<120005, 120069>>,
       <<120071, 120074>>, <<120077, 120084>>, <<120086, 120092>>,
       <<120094, 120121>>, <<120123, 120126>>, <<120128, 120132>>,
       <<120134, 120134>>, <<120138, 120144>>, <<120146, 120485>>,
       <<120488, 120512>>, <<120514, 120538>>, <<120540, 120570>>,
       <<120572, 120596>>, <<120598, 120628>>, <<120630, 120654>>,
       <<120656, 120686>>, <<120688, 120712>>, <<120714, 120744>>,
       <<120746, 120770>>, <<120772, 120779>>, <<120782, 120831>>,
       <<122624, 122654>>, <<123136, 123180>>, <<123191, 123197>>,
       <<123200, 123209>>, <<123214, 123214>>, <<123536, 123565>>,
       <<123584, 123627>>, <<123632, 123641>>, <<124896, 124902>>,
       <<124904, 124907>>, <<124909, 124910>>, <<124912, 124926>>,
       <<124928, 125124>>, <<125127, 125135>>, <<125184, 125251>>,
       <<125259, 125259>>, <<125264, 125273>>, <<126065, 126123>>,
       <<126125, 126127>>, <<126129, 126132>>, <<126209, 126253>>,
       <<126255, 126269>>, <<126464, 126467>>, <<126469, 126495>>,
       <<126497, 126498>>, <<126500, 126500>>, <<126503, 126503>>,
       <<126505, 126514>>, <<126516, 126519>>, <<126521, 126521>>,
       <<126523, 126523>>, <<126530, 126530>>, <<126535, 126535>>,
       <<126537, 126537>>, <<126539, 126539>>, <<126541, 126543>>,
       <<126545, 126546>>, <<126548, 126548>>, <<126551, 126551>>,
       <<126553, 126553>>, <<126555, 126555>>, <<126557, 126557>>,
       <<126559, 126559>>, <<126561, 126562>>, <<126564, 126564>>,
       <<126567, 126570>>, <<126572, 126578>>, <<126580, 126583>>,
       <<126585, 126588>>, <<126590, 126590>>, <<126592, 126601>>,
       <<126603, 126619>>, <<126625, 126627>>, <<126629, 126633>>,
       <<126635, 126651>>, <<127232, 127244>>, <<130032, 130041>>,
       <<131072, 173791>>, <<173824, 177976>>, <<177984, 178205>>,
       <<178208, 183969>>, <<183984, 191456>>, <<194560, 195101>>,
       <<196608, 201546>> >>
isalnum(c) == InRanges(AlnumRanges, c)

\* The characters with a one-character capital other than themselves, as
\* runs <<first, last, step, delta>>: the capital of c is c + delta.
UpperRuns ==
    << <<97, 122, 1, -32>>, <<181, 181, 1, 743>>, <<224, 246, 1, -32>>,
       <<248, 254, 1, -32>>, <<255, 255, 1, 121>>, <<257, 303, 2, -1>>,
       <<305, 305, 1, -232>>, <<307, 311, 2, -1>>, <<314, 328, 2, -1>>,
       <<331, 375, 2, -1>>, <<378, 382, 2, -1>>, <<383, 383, 1, -300>>,
       <<384, 384, 1, 195>>, <<387, 389, 2, -1>>, <<392, 392, 1, -1>>,
       <<396, 396, 1, -1>>, <<402, 402, 1, -1>>, <<405, 405, 1, 97>>,
       <<409, 409, 1, -1>>, <<410, 410, 1, 163>>, <<414, 414, 1, 130>>,
       <<417, 421, 2, -1>>, <<424, 424, 1, -1>>, <<429, 429, 1, -1>>,
       <<432, 432, 1, -1>>, <<436, 438, 2, -1>>, <<441, 441, 1, -1>>,
       <<445, 445, 1, -1>>, <<447, 447, 1, 56>>, <<453, 453, 1, -1>>,
       <<454, 454, 1, -2>>, <<456, 456, 1, -1>>, <<457, 457, 1, -2>>,
       <<459, 459, 1, -1>>, <<460, 460, 1, -2>>, <<462, 476, 2, -1>>,
       <<477, 477, 1, -79>>, <<479, 495, 2, -1>>, <<498, 498, 1, -1>>,
       <<499, 499, 1, -2>>, <<501, 501, 1, -1>>, <<505, 543, 2, -1>>,
       <<547, 563, 2, -1>>, <<572, 572, 1, -1>>, <<575, 576, 1, 10815>>,
       <<578, 578, 1, -1>>, <<583, 591, 2, -1>>, <<592, 592, 1, 10783>>,
       <<593, 593, 1, 10780>>, <<594, 594, 1, 10782>>, <<595, 595, 1, -210>>,
       <<596, 596, 1, -206>>, <<598, 599, 1, -205>>, <<601, 601, 1, -202>>,
       <<603, 603, 1, -203>>, <<604, 604, 1, 42319>>, <<608, 608, 1, -205>>,
       <<609, 609, 1, 42315>>, <<611, 611, 1, -207>>, <<613, 613, 1, 42280>>,
       <<614, 614, 1, 42308>>, <<616, 616, 1, -209>>, <<617, 617, 1, -211>>,
       <<618, 618, 1, 42308>>, <<619, 619, 1, 10743>>,
       <<620, 620, 1, 42305>>, <<623, 623, 1, -211>>, <<625, 625, 1, 10749>>,
       <<626, 626, 1, -213>>, <<629, 629, 1, -214>>, <<637, 637, 1, 10727>>,
       <<640, 640, 1, -218>>, <<642, 642, 1, 42307>>, <<643, 643, 1, -218>>,
       <<647, 647, 1, 42282>>, <<648, 648, 1, -218>>, <<649, 649, 1, -69>>,
       <<650, 651, 1, -217>>, <<652, 652, 1, -71>>, <<658, 658, 1, -219>>,
       <<669, 669, 1, 42261>>, <<670, 670, 1, 42258>>, <<837, 837, 1, 84>>,
       <<881, 883, 2, -1>>, <<887, 887, 1, -1>>, <<891, 893, 1, 130>>,
       <<940, 940, 1, -38>>, <<941, 943, 1, -37>>, <<945, 961, 1, -32>>,
       <<962, 962, 1, -31>>, <<963, 971, 1, -32>>, <<972, 972, 1, -64>>,
       <<973, 974, 1, -63>>, <<976, 976, 1, -62>>, <<977, 977, 1, -57>>,
       <<981, 981, 1, -47>>, <<982, 982, 1, -54>>, <<983, 983, 1, -8>>,
       <<985, 1007, 2, -1>>, <<1008, 1008, 1, -86>>, <<1009, 1009, 1, -80>>,
       <<1010, 1010, 1, 7>>, <<1011, 1011, 1, -116>>, <<1013, 1013, 1, -96>>,
       <<1016, 1016, 1, -1>>, <<1019, 1019, 1, -1>>, <<1072, 1103, 1, -32>>,
       <<1104, 1119, 1, -80>>, <<1121, 1153, 2, -1>>, <<1163, 1215, 2, -1>>,
       <<1218, 1230, 2, -1>>, <<1231, 1231, 1, -15>>, <<1233, 1327, 2, -1>>,
       <<1377, 1414, 1, -48>>, <<4304, 4346, 1, 3008>>,
       <<4349, 4351, 1, 3008>>, <<5112, 5117, 1, -8>>,
       <<7296, 7296, 1, -6254>>, <<7297, 7297, 1, -6253>>,
       <<7298, 7298, 1, -6244>>, <<7299, 7300, 1, -6242>>,
       <<7301, 7301, 1, -6243>>, <<7302, 7302, 1, -6236>>,
       <<7303, 7303, 1, -6181>>, <<7304, 7304, 1, 35266>>,
       <<7545, 7545, 1, 35332>>, <<7549, 7549, 1, 3814>>,
       <<7566, 7566, 1, 35384>>, <<7681, 7829, 2, -1>>,
       <<7835, 7835, 1, -59>>, <<7841, 7935, 2, -1>>, <<7936, 7943, 1, 8>>,
       <<7952, 7957, 1, 8>>, <<7968, 7975, 1, 8>>, <<7984, 7991, 1, 8>>,
       <<8000, 8005, 1, 8>>, <<8017, 8023, 2, 8>>, <<8032, 8039, 1, 8>>,
       <<8048, 8049, 1, 74>>, <<8050, 8053, 1, 86>>, <<8054, 8055, 1, 100>>,
       <<8056, 8057, 1, 128>>, <<8058, 8059, 1, 112>>,
       <<8060, 8061, 1, 126>>, <<8112, 8113, 1, 8>>,
       <<8126, 8126, 1, -7205>>, <<8144, 8145, 1, 8>>, <<8160, 8161, 1, 8>>,
       <<8165, 8165, 1, 7>>, <<8526, 8526, 1, -28>>, <<8560, 8575, 1, -16>>,
       <<8580, 8580, 1, -1>>, <<9424, 9449, 1, -26>>,
       <<11312, 11359, 1, -48>>, <<11361, 11361, 1, -1>>,
       <<11365, 11365, 1, -10795>>, <<11366, 11366, 1, -10792>>,
       <<11368, 11372, 2, -1>>, <<11379, 11379, 1, -1>>,
       <<11382, 11382, 1, -1>>, <<11393, 11491, 2, -1>>,
       <<11500, 11502, 2, -1>>, <<11507, 11507, 1, -1>>,
       <<11520, 11557, 1, -7264>>, <<11559, 11559, 1, -7264>>,
       <<11565, 11565, 1, -7264>>, <<42561, 42605, 2, -1>>,
       <<42625, 42651, 2, -1>>, <<42787, 42799, 2, -1>>,
       <<42803, 42863, 2, -1>>, <<42874, 42876, 2, -1>>,
       <<42879, 42887, 2, -1>>, <<42892, 42892, 1, -1>>,
       <<42897, 42899, 2, -1>>, <<42900, 42900, 1, 48>>,
       <<42903, 42921, 2, -1>>, <<42933, 42947, 2, -1>>,
       <<42952, 42954, 2, -1>>, <<42961, 42961, 1, -1>>,
       <<42967, 42969, 2, -1>>, <<42998, 42998, 1, -1>>,
       <<43859, 43859, 1, -928>>, <<43888, 43967, 1, -38864>>,
       <<65345, 65370, 1, -32>>, <<66600, 66639, 1, -40>>,
       <<66776, 66811, 1, -40>>, <<66967, 66977, 1, -39>>,
       <<66979, 66993, 1, -39>>, <<66995, 67001, 1, -39>>,
       <<67003, 67004, 1, -39>>, <<68800, 68850, 1, -64>>,
       <<71872, 71903, 1, -32>>, <<93792, 93823, 1, -32>>,
       <<125218, 125251, 1, -34>> >>
\* The characters whose capital is several characters.
UpperSpecial ==
    << <<223, <<83, 83>> >>, <<329, <<700, 78>> >>, <<496, <<74, 780>> >>,
       <<912, <<921, 776, 769>> >>, <<944, <<933, 776, 769>> >>,
       <<1415, <<1333, 1362>> >>, <<7830, <<72, 817>> >>,
       <<7831, <<84, 776>> >>, <<7832, <<87, 778>> >>,
       <<7833, <<89, 778>> >>, <<7834, <<65, 702>> >>,
       <<8016, <<933, 787>> >>, <<8018, <<933, 787, 768>> >>,
       <<8020, <<933, 787, 769>> >>, <<8022, <<933, 787, 834>> >>,
       <<8064, <<7944, 921>> >>, <<8065, <<7945, 921>> >>,
       <<8066, <<7946, 921>> >>, <<8067, <<7947, 921>> >>,
       <<8068, <<7948, 921>> >>, <<8069, <<7949, 921>> >>,
       <<8070, <<7950, 921>> >>, <<8071, <<7951, 921>> >>,
       <<8072, <<7944, 921>> >>, <<8073, <<7945, 921>> >>,
       <<8074, <<7946, 921>> >>, <<8075, <<7947, 921>> >>,
       <<8076, <<7948, 921>> >>, <<8077, <<7949, 921>> >>,
       <<8078, <<7950, 921>> >>, <<8079, <<7951, 921>> >>,
       <<8080, <<7976, 921>> >>, <<8081, <<7977, 921>> >>,
       <<8082, <<7978, 921>> >>, <<8083, <<7979, 921>> >>,
       <<8084, <<7980, 921>> >>, <<8085, <<7981, 921>> >>,
       <<8086, <<7982, 921>> >>, <<8087, <<7983, 921>> >>,
       <<8088, <<7976, 921>> >>, <<8089, <<7977, 921>> >>,
       <<8090, <<7978, 921>> >>, <<8091, <<7979, 921>> >>,
       <<8092, <<7980, 921>> >>, <<8093, <<7981, 921>> >>,
       <<8094, <<7982, 921>> >>, <<8095, <<7983, 921>> >>,
       <<8096, <<8040, 921>> >>, <<8097, <<8041, 921>> >>,
       <<8098, <<8042, 921>> >>, <<8099, <<8043, 921>> >>,
       <<8100, <<8044, 921>> >>, <<8101, <<8045, 921>> >>,
       <<8102, <<8046, 921>> >>, <<8103, <<8047, 921>> >>,
       <<8104, <<8040, 921>> >>, <<8105, <<8041, 921>> >>,
       <<8106, <<8042, 921>> >>, <<8107, <<8043, 921>> >>,
       <<8108, <<8044, 921>> >>, <<8109, <<8045, 921>> >>,
       <<8110, <<8046, 921>> >>, <<8111, <<8047, 921>> >>,
       <<8114, <<8122, 921>> >>, <<8115, <<913, 921>> >>,
       <<8116, <<902, 921>> >>, <<8118, <<913, 834>> >>,
       <<8119, <<913, 834, 921>> >>, <<8124, <<913, 921>> >>,
       <<8130, <<8138, 921>> >>, <<8131, <<919, 921>> >>,
       <<8132, <<905, 921>> >>, <<8134, <<919, 834>> >>,
       <<8135, <<919, 834, 921>> >>, <<8140, <<919, 921>> >>,
       <<8146, <<921, 776, 768>> >>, <<8147, <<921, 776, 769>> >>,
       <<8150, <<921, 834>> >>, <<8151, <<921, 776, 834>> >>,
       <<8162, <<933, 776, 768>> >>, <<8163, <<933, 776, 769>> >>,
       <<8164, <<929, 787>> >>, <<8166, <<933, 834>> >>,
       <<8167, <<933, 776, 834>> >>, <<8178, <<8186, 921>> >>,
       <<8179, <<937, 921>> >>, <<8180, <<911, 921>> >>,
       <<8182, <<937, 834>> >>, <<8183, <<937, 834, 921>> >>,
       <<8188, <<937, 921>> >>, <<64256, <<70, 70>> >>,
       <<64257, <<70, 73>> >>, <<64258, <<70, 76>> >>,
       <<64259, <<70, 70, 73>> >>, <<64260, <<70, 70, 76>> >>,
       <<64261, <<83, 84>> >>, <<64262, <<83, 84>> >>,
       <<64275, <<1348, 1350>> >>, <<64276, <<1348, 1333>> >>,
       <<64277, <<1348, 1339>> >>, <<64278, <<1358, 1350>> >>,
       <<64279, <<1348, 1341>> >> >>
\* The characters with a one-character small letter other than themselves.
LowerRuns ==
    << <<65, 90, 1, 32>>, <<192, 214, 1, 32>>, <<216, 222, 1, 32>>,
       <<256, 302, 2, 1>>, <<306, 310, 2, 1>>, <<313, 327, 2, 1>>,
       <<330, 374, 2, 1>>, <<376, 376, 1, -121>>, <<377, 381, 2, 1>>,
       <<385, 385, 1, 210>>, <<386, 388, 2, 1>>, <<390, 390, 1, 206>>,
       <<391, 391, 1, 1>>, <<393, 394, 1, 205>>, <<395, 395, 1, 1>>,
       <<398, 398, 1, 79>>, <<399, 399, 1, 202>>, <<400, 400, 1, 203>>,
       <<401, 401, 1, 1>>, <<403, 403, 1, 205>>, <<404, 404, 1, 207>>,
       <<406, 406, 1, 211>>, <<407, 407, 1, 209>>, <<408, 408, 1, 1>>,
       <<412, 412, 1, 211>>, <<413, 413, 1, 213>>, <<415, 415, 1, 214>>,
       <<416, 420, 2, 1>>, <<422, 422, 1, 218>>, <<423, 423, 1, 1>>,
       <<425, 425, 1, 218>>, <<428, 428, 1, 1>>, <<430, 430, 1, 218>>,
       <<431, 431, 1, 1>>, <<433, 434, 1, 217>>, <<435, 437, 2, 1>>,
       <<439, 439, 1, 219>>, <<440, 440, 1, 1>>, <<444, 444, 1, 1>>,
       <<452, 452, 1, 2>>, <<453, 453, 1, 1>>, <<455, 455, 1, 2>>,
       <<456, 456, 1, 1>>, <<458, 458, 1, 2>>, <<459, 475, 2, 1>>,
       <<478, 494, 2, 1>>, <<497, 497, 1, 2>>, <<498, 500, 2, 1>>,
       <<502, 502, 1, -97>>, <<503, 503, 1, -56>>, <<504, 542, 2, 1>>,
       <<544, 544, 1, -130>>, <<546, 562, 2, 1>>, <<570, 570, 1, 10795>>,
       <<571, 571, 1, 1>>, <<573, 573, 1, -163>>, <<574, 574, 1, 10792>>,
       <<577, 577, 1, 1>>, <<579, 579, 1, -195>>, <<580, 580, 1, 69>>,
       <<581, 581, 1, 71>>, <<582, 590, 2, 1>>, <<880, 882, 2, 1>>,
       <<886, 886, 1, 1>>, <<895, 895, 1, 116>>, <<902, 902, 1, 38>>,
       <<904, 906, 1, 37>>, <<908, 908, 1, 64>>, <<910, 911, 1, 63>>,
       <<913, 929, 1, 32>>, <<931, 939, 1, 32>>, <<975, 975, 1, 8>>,
       <<984, 1006, 2, 1>>, <<1012, 1012, 1, -60>>, <<1015, 1015, 1, 1>>,
       <<1017, 1017, 1, -7>>, <<1018, 1018, 1, 1>>, <<1021, 1023, 1, -130>>,
       <<1024, 1039, 1, 80>>, <<1040, 1071, 1, 32>>, <<1120, 1152, 2, 1>>,
       <<1162, 1214, 2, 1>>, <<1216, 1216, 1, 15>>, <<1217, 1229, 2, 1>>,
       <<1232, 1326, 2, 1>>, <<1329, 1366, 1, 48>>, <<4256, 4293, 1, 7264>>,
       <<4295, 4295, 1, 7264>>, <<4301, 4301, 1, 7264>>,
       <<5024, 5103, 1, 38864>>, <<5104, 5109, 1, 8>>,
       <<7312, 7354, 1, -3008>>, <<7357, 7359, 1, -3008>>,
       <<7680, 7828, 2, 1>>, <<7838, 7838, 1, -7615>>, <<7840, 7934, 2, 1>>,
       <<7944, 7951, 1, -8>>, <<7960, 7965, 1, -8>>, <<7976, 7983, 1, -8>>,
       <<7992, 7999, 1, -8>>, <<8008, 8013, 1, -8>>, <<8025, 8031, 2, -8>>,
       <<8040, 8047, 1, -8>>, <<8072, 8079, 1, -8>>, <<8088, 8095, 1, -8>>,
       <<8104, 8111, 1, -8>>, <<8120, 8121, 1, -8>>, <<8122, 8123, 1, -74>>,
       <<8124, 8124, 1, -9>>, <<8136, 8139, 1, -86>>, <<8140, 8140, 1, -9>>,
       <<8152, 8153, 1, -8>>, <<8154, 8155, 1, -100>>, <<8168, 8169, 1, -8>>,
       <<8170, 8171, 1, -112>>, <<8172, 8172, 1, -7>>,
       <<8184, 8185, 1, -128>>, <<8186, 8187, 1, -126>>,
       <<8188, 8188, 1, -9>>, <<8486, 8486, 1, -7517>>,
       <<8490, 8490, 1, -8383>>, <<8491, 8491, 1, -8262>>,
       <<8498, 8498, 1, 28>>, <<8544, 8559, 1, 16>>, <<8579, 8579, 1, 1>>,
       <<9398, 9423, 1, 26>>, <<11264, 11311, 1, 48>>,
       <<11360, 11360, 1, 1>>, <<11362, 11362, 1, -10743>>,
       <<11363, 11363, 1, -3814>>, <<11364, 11364, 1, -10727>>,
       <<11367, 11371, 2, 1>>, <<11373, 11373, 1, -10780>>,
       <<11374, 11374, 1, -10749>>, <<11375, 11375, 1, -10783>>,
       <<11376, 11376, 1, -10782>>, <<11378, 11378, 1, 1>>,
       <<11381, 11381, 1, 1>>, <<11390, 11391, 1, -10815>>,
       <<11392, 11490, 2, 1>>, <<11499, 11501, 2, 1>>,
       <<11506, 11506, 1, 1>>, <<42560, 42604, 2, 1>>,
       <<42624, 42650, 2, 1>>, <<42786, 42798, 2, 1>>,
       <<42802, 42862, 2, 1>>, <<42873, 42875, 2, 1>>,
       <<42877, 42877, 1, -35332>>, <<42878, 42886, 2, 1>>,
       <<42891, 42891, 1, 1>>, <<42893, 42893, 1, -42280>>,
       <<42896, 42898, 2, 1>>, <<42902, 42920, 2, 1>>,
       <<42922, 42922, 1, -42308>>, <<42923, 42923, 1, -42319>>,
       <<42924, 42924, 1, -42315>>, <<42925, 42925, 1, -42305>>,
       <<42926, 42926, 1, -42308>>, <<42928, 42928, 1, -42258>>,
       <<42929, 42929, 1, -42282>>, <<42930, 42930, 1, -42261>>,
       <<42931, 42931, 1, 928>>, <<42932, 42946, 2, 1>>,
       <<42948, 42948, 1, -48>>, <<42949, 42949, 1, -42307>>,
       <<42950, 42950, 1, -35384>>, <<42951, 42953, 2, 1>>,
       <<42960, 42960, 1, 1>>, <<42966, 42968, 2, 1>>,
       <<42997, 42997, 1, 1>>, <<65313, 65338, 1, 32>>,
       <<66560, 66599, 1, 40>>, <<66736, 66771, 1, 40>>,
       <<66928, 66938, 1, 39>>, <<66940, 66954, 1, 39>>,
       <<66956, 66962, 1, 39>>, <<66964, 66965, 1, 39>>,
       <<68736, 68786, 1, 64>>, <<71840, 71871, 1, 32>>,
       <<93760, 93791, 1, 32>>, <<125184, 125217, 1, 34>> >>
\* The character whose small letter is several characters: capital I
\* with dot above.
LowerSpecial ==
    << <<304, <<105, 775>> >> >>
\* The ranges of the characters with the Unicode properties Cased and
\* Case_Ignorable, which decide the small letter of a capital sigma.
CasedRanges ==
    << <<65, 90>>, <<97, 122>>, <<170, 170>>, <<181, 181>>, <<186, 186>>,
       <<192, 214>>, <<216, 246>>, <<248, 442>>, <<444, 447>>, <<452, 659>>,
       <<661, 696>>, <<704, 705>>, <<736, 740>>, <<837, 837>>, <<880, 883>>,
       <<886, 887>>, <<890, 893>>, <<895, 895>>, <<902, 902>>, <<904, 906>>,
       <<908, 908>>, <<910, 929>>, <<931, 1013>>, <<1015, 1153>>,
       <<1162, 1327>>, <<1329, 1366>>, <<1376, 1416>>, <<4256, 4293>>,
       <<4295, 4295>>, <<4301, 4301>>, <<4304, 4346>>, <<4349, 4351>>,
       <<5024, 5109>>, <<5112, 5117>>, <<7296, 7304>>, <<7312, 7354>>,
       <<7357, 7359>>, <<7424, 7615>>, <<7680, 7957>>, <<7960, 7965>>,
       <<7968, 8005>>, <<8008, 8013>>, <<8016, 8023>>, <<8025, 8025>>,
       <<8027, 8027>>, <<8029, 8029>>, <<8031, 8061>>, <<8064, 8116>>,
       <<8118, 8124>>, <<8126, 8126>>, <<8130, 8132>>, <<8134, 8140>>,
       <<8144, 8147>>, <<8150, 8155>>, <<8160, 8172>>, <<8178, 8180>>,
       <<8182, 8188>>, <<8305, 8305>>, <<8319, 8319>>, <<8336, 8348>>,
       <<8450, 8450>>, <<8455, 8455>>, <<8458, 8467>>, <<8469, 8469>>,
       <<8473, 8477>>, <<8484, 8484>>, <<8486, 8486>>, <<8488, 8488>>,
       <<8490, 8493>>, <<8495, 8500>>, <<8505, 8505>>, <<8508, 8511>>,
       <<8517, 8521>>, <<8526, 8526>>, <<8544, 8575>>, <<8579, 8580>>,
       <<9398, 9449>>, <<11264, 11492>>, <<11499, 11502>>, <<11506, 11507>>,
       <<11520, 11557>>, <<11559, 11559>>, <<11565, 11565>>,
       <<42560, 42605>>, <<42624, 42653>>, <<42786, 42887>>,
       <<42891, 42894>>, <<42896, 42954>>, <<42960, 42961>>,
       <<42963, 42963>>, <<42965, 42969>>, <<42997, 42998>>,
       <<43000, 43002>>, <<43824, 43866>>, <<43868, 43880>>,
       <<43888, 43967>>, <<64256, 64262>>, <<64275, 64279>>,
       <<65313, 65338>>, <<65345, 65370>>, <<66560, 66639>>,
       <<66736, 66771>>, <<66776, 66811>>, <<66928, 66938>>,
       <<66940, 66954>>, <<66956, 66962>>, <<66964, 66965>>,
       <<66967, 66977>>, <<66979, 66993>>, <<66995, 67001>>,
       <<67003, 67004>>, <<67456, 67456>>, <<67459, 67461>>,
       <<67463, 67504>>, <<67506, 67514>>, <<68736, 68786>>,
       <<68800, 68850>>, <<71840, 71903>>, <<93760, 93823>>,
       <<119808, 119892>>, <<119894, 119964>>, <<119966, 119967>>,
       <<119970, 119970>>, <<119973, 119974>>, <<119977, 119980>>,
       <<119982, 119993>>, <<119995, 119995>>, <<119997, 120003>>,
       <<120005, 120069>>, <<120071, 120074>>, <<120077, 120084>>,
       <<120086, 120092>>, <<120094, 120121>>, <<120123, 120126>>,
       <<120128, 120132>>, <<120134, 120134>>, <<120138, 120144>>,
       <<120146, 120485>>, <<120488, 120512>>, <<120514, 120538>>,
       <<120540, 120570>>, <<120572, 120596>>, <<120598, 120628>>,
       <<120630, 120654>>, <<120656, 120686>>, <<120688, 120712>>,
       <<120714, 120744>>, <<120746, 120770>>, <<120772, 120779>>,
       <<122624, 122633>>, <<122635, 122654>>, <<125184, 125251>>,
       <<127280, 127305>>, <<127312, 127337>>, <<127344, 127369>> >>
CaseIgnorableRanges ==
    << <<39, 39>>, <<46, 46>>, <<58, 58>>, <<94, 94>>, <<96, 96>>,
       <<168, 168>>, <<173, 173>>, <<175, 175>>, <<180, 180>>, <<183, 184>>,
       <<688, 879>>, <<884, 885>>, <<890, 890>>, <<900, 901>>, <<903, 903>>,
       <<1155, 1161>>, <<1369, 1369>>, <<1375, 1375>>, <<1425, 1469>>,
       <<1471, 1471>>, <<1473, 1474>>, <<1476, 1477>>, <<1479, 1479>>,
       <<1524, 1524>>, <<1536, 1541>>, <<1552, 1562>>, <<1564, 1564>>,
       <<1600, 1600>>, <<1611, 1631>>, <<1648, 1648>>, <<1750, 1757>>,
       <<1759, 1768>>, <<1770, 1773>>, <<1807, 1807>>, <<1809, 1809>>,
       <<1840, 1866>>, <<1958, 1968>>, <<2027, 2037>>, <<2042, 2042>>,
       <<2045, 2045>>, <<2070, 2093>>, <<2137, 2139>>, <<2184, 2184>>,
       <<2192, 2193>>, <<2200, 2207>>, <<2249, 2306>>, <<2362, 2362>>,
       <<2364, 2364>>, <<2369, 2376>>, <<2381, 2381>>, <<2385, 2391>>,
       <<2402, 2403>>, <<2417, 2417>>, <<2433, 2433>>, <<2492, 2492>>,
       <<2497, 2500>>, <<2509, 2509>>, <<2530, 2531>>, <<2558, 2558>>,
       <<2561, 2562>>, <<2620, 2620>>, <<2625, 2626>>, <<2631, 2632>>,
       <<2635, 2637>>, <<2641, 2641>>, <<2672, 2673>>, <<2677, 2677>>,
       <<2689, 2690>>, <<2748, 2748>>, <<2753, 2757>>, <<2759, 2760>>,
       <<2765, 2765>>, <<2786, 2787>>, <<2810, 2815>>, <<2817, 2817>>,
       <<2876, 2876>>, <<2879, 2879>>, <<2881, 2884>>, <<2893, 2893>>,
       <<2901, 2902>>, <<2914, 2915>>, <<2946, 2946>>, <<3008, 3008>>,
       <<3021, 3021>>, <<3072, 3072>>, <<3076, 3076>>, <<3132, 3132>>,
       <<3134, 3136>>, <<3142, 3144>>, <<3146, 3149>>, <<3157, 3158>>,
       <<3170, 3171>>, <<3201, 3201>>, <<3260, 3260>>, <<3263, 3263>>,
       <<3270, 3270>>, <<3276, 3277>>, <<3298, 3299>>, <<3328, 3329>>,
       <<3387, 3388>>, <<3393, 3396>>, <<3405, 3405>>, <<3426, 3427>>,
       <<3457, 3457>>, <<3530, 3530>>, <<3538, 3540>>, <<3542, 3542>>,
       <<3633, 3633>>, <<3636, 3642>>, <<3654, 3662>>, <<3761, 3761>>,
       <<3764, 3772>>, <<3782, 3782>>, <<3784, 3789>>, <<3864, 3865>>,
       <<3893, 3893>>, <<3895, 3895>>, <<3897, 3897>>, <<3953, 3966>>,
       <<3968, 3972>>, <<3974, 3975>>, <<3981, 3991>>, <<3993, 4028>>,
       <<4038, 4038>>, <<4141, 4144>>, <<4146, 4151>>, <<4153, 4154>>,
       <<4157, 4158>>, <<4184, 4185>>, <<4190, 4192>>, <<4209, 4212>>,
       <<4226, 4226>>, <<4229, 4230>>, <<4237, 4237>>, <<4253, 4253>>,
       <<4348, 4348>>, <<4957, 4959>>, <<5906, 5908>>, <<5938, 5939>>,
       <<5970, 5971>>, <<6002, 6003>>, <<6068, 6069>>, <<6071, 6077>>,
       <<6086, 6086>>, <<6089, 6099>>, <<6103, 6103>>, <<6109, 6109>>,
       <<6155, 6159>>, <<6211, 6211>>, <<6277, 6278>>, <<6313, 6313>>,
       <<6432, 6434>>, <<6439, 6440>>, <<6450, 6450>>, <<6457, 6459>>,
       <<6679, 6680>>, <<6683, 6683>>, <<6742, 6742>>, <<6744, 6750>>,
       <<6752, 6752>>, <<6754, 6754>>, <<6757, 6764>>, <<6771, 6780>>,
       <<6783, 6783>>, <<6823, 6823>>, <<6832, 6862>>, <<6912, 6915>>,
       <<6964, 6964>>, <<6966, 6970>>, <<6972, 6972>>, <<6978, 6978>>,
       <<7019, 7027>>, <<7040, 7041>>, <<7074, 7077>>, <<7080, 7081>>,
       <<7083, 7085>>, <<7142, 7142>>, <<7144, 7145>>, <<7149, 7149>>,
       <<7151, 7153>>, <<7212, 7219>>, <<7222, 7223>>, <<7288, 7293>>,
       <<7376, 7378>>, <<7380, 7392>>, <<7394, 7400>>, <<7405, 7405>>,
       <<7412, 7412>>, <<7416, 7417>>, <<7468, 7530>>, <<7544, 7544>>,
       <<7579, 7679>>, <<8125, 8125>>, <<8127, 8129>>, <<8141, 8143>>,
       <<8157, 8159>>, <<8173, 8175>>, <<8189, 8190>>, <<8203, 8207>>,
       <<8216, 8217>>, <<8228, 8228>>, <<8231, 8231>>, <<8234, 8238>>,
       <<8288, 8292>>, <<8294, 8303>>, <<8305, 8305>>, <<8319, 8319>>,
       <<8336, 8348>>, <<8400, 8432>>, <<11388, 11389>>, <<11503, 11505>>,
       <<11631, 11631>>, <<11647, 11647>>, <<11744, 11775>>,
       <<11823, 11823>>, <<12293, 12293>>, <<12330, 12333>>,
       <<12337, 12341>>, <<12347, 12347>>, <<12441, 12446>>,
       <<12540, 12542>>, <<40981, 40981>>, <<42232, 42237>>,
       <<42508, 42508>>, <<42607, 42610>>, <<42612, 42621>>,
       <<42623, 42623>>, <<42652, 42655>>, <<42736, 42737>>,
       <<42752, 42785>>, <<42864, 42864>>, <<42888, 42890>>,
       <<42994, 42996>>, <<43000, 43001>>, <<43010, 43010>>,
       <<43014, 43014>>, <<43019, 43019>>, <<43045, 43046>>,
       <<43052, 43052>>, <<43204, 43205>>, <<43232, 43249>>,
       <<43263, 43263>>, <<43302, 43309>>, <<43335, 43345>>,
       <<43392, 43394>>, <<43443, 43443>>, <<43446, 43449>>,
       <<43452, 43453>>, <<43471, 43471>>, <<43493, 43494>>,
       <<43561, 43566>>, <<43569, 43570>>, <<43573, 43574>>,
       <<43587, 43587>>, <<43596, 43596>>, <<43632, 43632>>,
       <<43644, 43644>>, <<43696, 43696>>, <<43698, 43700>>,
       <<43703, 43704>>, <<43710, 43711>>, <<43713, 43713>>,
       <<43741, 43741>>, <<43756, 43757>>, <<43763, 43764>>,
       <<43766, 43766>>, <<43867, 43871>>, <<43881, 43883>>,
       <<44005, 44005>>, <<44008, 44008>>, <<44013, 44013>>,
       <<64286, 64286>>, <<64434, 64450>>, <<65024, 65039>>,
       <<65043, 65043>>, <<65056, 65071>>, <<65106, 65106>>,
       <<65109, 65109>>, <<65279, 65279>>, <<65287, 65287>>,
       <<65294, 65294>>, <<65306, 65306>>, <<65342, 65342>>,
       <<65344, 65344>>, <<65392, 65392>>, <<65438, 65439>>,
       <<65507, 65507>>, <<65529, 65531>>, <<66045, 66045>>,
       <<66272, 66272>>, <<66422, 66426>>, <<67456, 67461>>,
       <<67463, 67504>>, <<67506, 67514>>, <<68097, 68099>>,
       <<68101, 68102>>, <<68108, 68111>>, <<68152, 68154>>,
       <<68159, 68159>>, <<68325, 68326>>, <<68900, 68903>>,
       <<69291, 69292>>, <<69446, 69456>>, <<69506, 69509>>,
       <<69633, 69633>>, <<69688, 69702>>, <<69744, 69744>>,
       <<69747, 69748>>, <<69759, 69761>>, <<69811, 69814>>,
       <<69817, 69818>>, <<69821, 69821>>, <<69826, 69826>>,
       <<69837, 69837>>, <<69888, 69890>>, <<69927, 69931>>,
       <<69933, 69940>>, <<70003, 70003>>, <<70016, 70017>>,
       <<70070, 70078>>, <<70089, 70092>>, <<70095, 70095>>,
       <<70191, 70193>>, <<70196, 70196>>, <<70198, 70199>>,
       <<70206, 70206>>, <<70367, 70367>>, <<70371, 70378>>,
       <<70400, 70401>>, <<70459, 70460>>, <<70464, 70464>>,
       <<70502, 70508>>, <<70512, 70516>>, <<70712, 70719>>,
       <<70722, 70724>>, <<70726, 70726>>, <<70750, 70750>>,
       <<70835, 70840>>, <<70842, 70842>>, <<70847, 70848>>,
       <<70850, 70851>>, <<71090, 71093>>, <<71100, 71101>>,
       <<71103, 71104>>, <<71132, 71133>>, <<71219, 71226>>,
       <<71229, 71229>>, <<71231, 71232>>, <<71339, 71339>>,
       <<71341, 71341>>, <<71344, 71349>>, <<71351, 71351>>,
       <<71453, 71455>>, <<71458, 71461>>, <<71463, 71467>>,
       <<71727, 71735>>, <<71737, 71738>>, <<71995, 71996>>,
       <<71998, 71998>>, <<72003, 72003>>, <<72148, 72151>>,
       <<72154, 72155>>, <<72160, 72160>>, <<72193, 72202>>,
       <<72243, 72248>>, <<72251, 72254>>, <<72263, 72263>>,
       <<72273, 72278>>, <<72281, 72283>>, <<72330, 72342>>,
       <<72344, 72345>>, <<72752, 72758>>, <<72760, 72765>>,
       <<72767, 72767>>, <<72850, 72871>>, <<72874, 72880>>,
       <<72882, 72883>>, <<72885, 72886>>, <<73009, 73014>>,
       <<73018, 73018>>, <<73020, 73021>>, <<73023, 73029>>,
       <<73031, 73031>>, <<73104, 73105>>, <<73109, 73109>>,
       <<73111, 73111>>, <<73459, 73460>>, <<78896, 78904>>,
       <<92912, 92916>>, <<92976, 92982>>, <<92992, 92995>>,
       <<94031, 94031>>, <<94095, 94111>>, <<94176, 94177>>,
       <<94179, 94180>>, <<110576, 110579>>, <<110581, 110587>>,
       <<110589, 110590>>, <<113821, 113822>>, <<113824, 113827>>,
       <<118528, 118573>>, <<118576, 118598>>, <<119143, 119145>>,
       <<119155, 119170>>, <<119173, 119179>>, <<119210, 119213>>,
       <<119362, 119364>>, <<121344, 121398>>, <<121403, 121452>>,
       <<121461, 121461>>, <<121476, 121476>>, <<121499, 121503>>,
       <<121505, 121519>>, <<122880, 122886>>, <<122888, 122904>>,
       <<122907, 122913>>, <<122915, 122916>>, <<122918, 122922>>,
       <<123184, 123197>>, <<123566, 123566>>, <<123628, 123631>>,
       <<125136, 125142>>, <<125252, 125259>>, <<127995, 127999>>,
       <<917505, 917505>>, <<917536, 917631>>, <<917760, 917999>> >>
IsCased(c) == InRanges(CasedRanges, c)
IsCaseIgnorable(c) == InRanges(CaseIgnorableRanges, c)

\* c.upper() and c.lower() for one character c, as the code points of the
\* result.
UpperChar(c) ==
    IF Special(UpperSpecial, c) # <<>> THEN Special(UpperSpecial, c)
    ELSE <<c + RunDelta(UpperRuns, c)>>
LowerChar(c) ==
    IF Special(LowerSpecial, c) # <<>> THEN Special(LowerSpecial, c)
    ELSE <<c + RunDelta(LowerRuns, c)>>

\* The small letter of the capital sigma (U+03A3) at position i of s: the
\* final sigma (U+03C2) when a cased character comes before it, case-
\* ignorable characters skipped, and none comes after it in the same way;
\* the small sigma (U+03C3) otherwise.
handle_capital_sigma(s, i) ==
    LET before == {j \in 1..(i - 1) : ~IsCaseIgnorable(s[j])}
        after == {j \in (i + 1)..Len(s) : ~IsCaseIgnorable(s[j])}
        last == CHOOSE j \in before : \A k \in before : k <= j
        next == CHOOSE j \in after : \A k \in after : j <= k
    IN  IF /\ before # {} /\ IsCased(s[last])
           /\ after = {} \/ ~IsCased(s[next])
        THEN 962 ELSE 963

\* str.upper() and str.lower()
upper(s) == Concat([i \in 1..Len(s) |-> UpperChar(s[i])])
lower(s) ==
    Concat([i \in 1..Len(s) |->
        IF s[i] = 931 THEN <<handle_capital_sigma(s, i)>>
        ELSE LowerChar(s[i])])

\* str.lstrip(), str.rstrip(), str.strip()
RECURSIVE lstrip(_)
lstrip(s) ==
    IF s # <<>> /\ Head(s) \in Whitespace THEN lstrip(Tail(s)) ELSE s
RECURSIVE rstrip(_)
rstrip(s) ==
    IF s # <<>> /\ s[Len(s)] \in Whitespace
    THEN rstrip(SubSeq(s, 1, Len(s) - 1)) ELSE s

\* A strip that trims the front only.
strip_LeftOnly(s) == lstrip(s)

strip(s) == rstrip(lstrip(s))

\* The position of the first sep in s, 0 when there is none.
find(s, sep) ==
    IF In(sep, s) THEN index(s, sep) + 1 ELSE 0

\* s.split(sep) for a one-character sep: the pieces between the separators,
\* empty pieces included.
RECURSIVE split(_, _)
split(s, sep) ==
    IF find(s, sep) = 0 THEN <<s>>
    ELSE <<SubSeq(s, 1, find(s, sep) - 1)>>
         \o split(SubSeq(s, find(s, sep) + 1, Len(s)), sep)

\* All strings over chars of length at most n.
Strings(chars, n) == UNION {[1..m -> chars] : m \in 0..n}

(***************************************************************************)
(* parse_arg(arg).  A str is [type |-> "str", val |-> code points]; a list *)
(* or tuple is an object [type, id, items], id being its identity.         *)
(***************************************************************************)
\* The identity of the list parse_arg builds, not that of any argument.
NewId == "new"

parse_arg(a) ==
    IF a.type = "str"
    THEN LET s == strip(a.val)
         IN  IF In(ord(","), s)
             THEN [type |-> "list", id |-> NewId,
                   items |-> [i \in 1..Len(split(s, ord(","))) |->
                                 strip(split(s, ord(","))[i])]]
             ELSE [type |-> "list", id |-> NewId, items |-> <<s>>]
    ELSE a

\* The characters of the strings parse_arg is applied to: two letters, the
\* comma, the space, the form feed, the no-break space and the em space
\* (U+2003).
ParseChars == {ord("a"), ord("b"), ord(","), ord(" "), 12, 160, 8195}

\* The arguments parse_arg is applied to: every short string, and some
\* lists and tuples, untrimmed items among them.
ParseInputs ==
    {[type |-> "str", val |-> v] : v \in Strings(ParseChars, MaxArgLen)}
    \cup {[type |-> t, id |-> i, items |-> it] :
            t \in {"list", "tuple"}, i \in {"o1", "o2"},
            it \in {<<>>, <<Str(<<"x">>), Str(<<"y">>)>>,
                    <<Str(<<" ", "a", ",", "b">>)>>}}

InitParse == MemoIdle /\ ThreadsIdle /\ arg \in ParseInputs /\ ret = <<>> /\ done = FALSE

ApplyParse ==
    /\ ~done
    /\ ret' = parse_arg(arg)
    /\ done' = TRUE
    /\ UNCHANGED <<memoVars, thrVars, arg>>

SpecParse == InitParse /\ [][ApplyParse]_vars

\* y is x without its leading and trailing whitespace.
IsTrimOf(y, x) ==
    /\ \E i \in 0..Len(x), j \in 0..Len(x) :
           /\ i <= j
           /\ y = SubSeq(x, i + 1, j)
           /\ \A m \in (1..i) \cup ((j + 1)..Len(x)) : x[m] \in Whitespace
    /\ y # <<>> => (y[1] \notin Whitespace /\ y[Len(y)] \notin Whitespace)

\* The positions of the commas of s, and the n-th of them in order (0 for
\* n = 0, Len(s) + 1 past the last).
CommaSet(s) == {i \in 1..Len(s) : s[i] = 44}
CommaAt(s, n) ==
    IF n = 0 THEN 0
    ELSE IF n > Cardinality(CommaSet(s)) THEN Len(s) + 1
    ELSE CHOOSE i \in CommaSet(s) :
             Cardinality({j \in CommaSet(s) : j <= i}) = n

\* C7 as stated: a string without a comma comes back as a one-element list
\* holding that very string; a string with commas is split on every comma
\* into trimmed pieces, in order, empty pieces kept; a list or tuple comes
\* back as the same object, unchanged.
C7_AsStated ==
    done =>
        /\ (arg.type = "str" /\ CommaSet(arg.val) = {}) =>
               (ret.type = "list" /\ ret.items = <<arg.val>>)
        /\ (arg.type = "str" /\ CommaSet(arg.val) # {}) =>
               /\ ret.type = "list"
               /\ Len(ret.items) = Cardinality(CommaSet(arg.val)) + 1
               /\ \A n \in 1..Len(ret.items) :
                      IsTrimOf(ret.items[n],
                               SubSeq(arg.val, CommaAt(arg.val, n - 1) + 1,
                                      CommaAt(arg.val, n) - 1))
        /\ arg.type # "str" => ret = arg

\* C7, amended: the one element of the list returned for a string without
\* a comma is that string trimmed of its surrounding whitespace; the rest
\* as stated.
C7_ParseArg ==
    done =>
        /\ (arg.type = "str" /\ CommaSet(arg.val) = {}) =>
               /\ ret.type = "list" /\ ret.id = NewId
               /\ Len(ret.items) = 1
               /\ IsTrimOf(ret.items[1], arg.val)
        /\ (arg.type = "str" /\ CommaSet(arg.val) # {}) =>
               /\ ret.type = "list" /\ ret.id = NewId
               /\ Len(ret.items) = Cardinality(CommaSet(arg.val)) + 1
               /\ \A n \in 1..Len(ret.items) :
                      IsTrimOf(ret.items[n],
                               SubSeq(arg.val, CommaAt(arg.val, n - 1) + 1,
                                      CommaAt(arg.val, n) - 1))
        /\ arg.type # "str" =>
               (ret.type = arg.type /\ ret.id = arg.id /\ ret.items = arg.items)

\* parse_arg has split " a, ,b" style input: commas, an empty piece and
\* whitespace around the pieces.
C7_Witness ==
    /\ done
    /\ arg.type = "str"
    /\ Cardinality(CommaSet(arg.val)) = 2
    /\ arg.val[1] \in Whitespace
    /\ Len(ret.items) = 3
    /\ ret.items[2] = <<>>
    /\ ret.items[3] = <<98>>  \* "b"

(***************************************************************************)
(* clean_ticker(ticker)                                                    *)
(***************************************************************************)
\* \w of a str pattern: the characters str.isalnum() holds for, letters
\* and numeric characters of any script, and the underscore.
IsWordChar(c) == isalnum(c) \/ c = ord("_")

\* A pattern that matches \W only.
InPattern_NonWordOnly(c) == ~IsWordChar(c)

\* The character class [\W_] of the pattern "[\\W_]+".
InPattern(c) == ~IsWordChar(c) \/ c = ord("_")

\* The length of the longest run of pattern characters s starts with.
RECURSIVE MatchLen(_)
MatchLen(s) ==
    IF s # <<>> /\ InPattern(Head(s)) THEN 1 + MatchLen(Tail(s)) ELSE 0

\* pattern.sub("", s): every maximal run the pattern matches is replaced
\* by the empty string, left to right.
RECURSIVE sub(_)
sub(s) ==
    IF s = <<>> THEN <<>>
    ELSE IF MatchLen(s) > 0 THEN sub(SubSeq(s, MatchLen(s) + 1, Len(s)))
    ELSE <<Head(s)>> \o sub(Tail(s))

clean_ticker(ticker) == lower(sub(split(ticker, ord(" "))[1]))

\* The characters of the tickers: ASCII letters, a digit, the underscore,
\* a symbol, the space, superscript two (U+00B2), the Greek capital sigma
\* (U+03A3) and small alpha (U+03B1).
TickerChars ==
    {ord("A"), ord("b"), ord("1"), ord("_"), ord("^"), ord(" "), 178, 931,
     945}

InitTicker ==
    /\ MemoIdle /\ ThreadsIdle
    /\ arg \in Strings(TickerChars, MaxTickerLen)
    /\ ret = <<>> /\ done = FALSE

ApplyTicker ==
    /\ ~done
    /\ ret' = clean_ticker(arg)
    /\ done' = TRUE
    /\ UNCHANGED <<memoVars, thrVars, arg>>

SpecTicker == InitTicker /\ [][ApplyTicker]_vars

\* The part of s before its first space (all of s when it has none).
FirstToken(s) ==
    CHOOSE t \in {SubSeq(s, 1, n) : n \in 0..Len(s)} :
        /\ ~In(32, t)
        /\ Len(t) < Len(s) => s[Len(t) + 1] = 32

\* For strings of ASCII characters, by the arithmetic of the code points:
\* c is a letter or a digit, and s with its capitals made small.
IsAscii(s) == \A i \in 1..Len(s) : s[i] < 128
AsciiAlnum(c) == c \in (48..57) \cup (65..90) \cup (97..122)
AsciiLowered(s) ==
    [i \in 1..Len(s) |-> IF s[i] \in 65..90 THEN s[i] + 32 ELSE s[i]]

\* C6 as stated: the result is the first token's letters, digits and
\* underscores, in order, in lowercase.
C6_AsStated ==
    done =>
        ret = lower(SelectSeq(FirstToken(arg),
                  LAMBDA c : isalnum(c) \/ c = 95))

\* C6, amended: the result is str.lower() of the first token's letters and
\* digits (those of str.isalnum(), of any script), in order; every other
\* character, the underscore included, is removed.  For a ticker of ASCII
\* characters that is its first token's letters a-z, A-Z and digits, the
\* capitals made small.  An input without letters and digits gives the
\* empty string.
C6_CleanTicker ==
    done =>
        /\ ret = lower(SelectSeq(FirstToken(arg), isalnum))
        /\ IsAscii(arg) =>
               ret = AsciiLowered(SelectSeq(FirstToken(arg), AsciiAlnum))
        /\ (\A i \in 1..Len(arg) : ~isalnum(arg[i])) => ret = <<>>

\* clean_ticker has cleaned "A_1 b"-like input: an upper-case letter, an
\* underscore and a digit in the first token, and a second token.
C6_Witness ==
    /\ done
    /\ In(32, arg) /\ In(95, FirstToken(arg)) /\ In(65, FirstToken(arg))
    /\ Len(FirstToken(arg)) = 3
    /\ Len(ret) = 2
    /\ ret[1] = 97

(***************************************************************************)
(* get_freq_name(period)                                                   *)
(***************************************************************************)
\* The result None.
None == "None"

\* The dict `periods`.
periods ==
    (Str(<<"B">>) :> "business day")
    @@ (Str(<<"C">>) :> "custom business day")
    @@ (Str(<<"D">>) :> "daily")
    @@ (Str(<<"W">>) :> "weekly")
    @@ (Str(<<"M">>) :> "monthly")
    @@ (Str(<<"B", "M">>) :> "business month end")
    @@ (Str(<<"C", "B", "M">>) :> "custom business month end")
    @@ (Str(<<"M", "S">>) :> "month start")
    @@ (Str(<<"B", "M", "S">>) :> "business month start")
    @@ (Str(<<"C", "B", "M", "S">>) :> "custom business month start")
    @@ (Str(<<"Q">>) :> "quarterly")
    @@ (Str(<<"B", "Q">>) :> "business quarter end")
    @@ (Str(<<"Q", "S">>) :> "quarter start")
    @@ (Str(<<"B", "Q", "S">>) :> "business quarter start")
    @@ (Str(<<"Y">>) :> "yearly")
    @@ (Str(<<"A">>) :> "yearly")
    @@ (Str(<<"B", "A">>) :> "business year end")
    @@ (Str(<<"A", "S">>) :> "year start")
    @@ (Str(<<"B", "A", "S">>) :> "business year start")
    @@ (Str(<<"H">>) :> "hourly")
    @@ (Str(<<"T">>) :> "minutely")
    @@ (Str(<<"S">>) :> "secondly")
    @@ (Str(<<"L">>) :> "milliseonds")
    @@ (Str(<<"U">>) :> "microseconds")

\* A lookup that does not uppercase the code first.
get_freq_name_NoUpper(period) ==
    IF period \in DOMAIN periods THEN periods[period] ELSE None

get_freq_name(period) ==
    IF upper(period) \in DOMAIN periods THEN periods[upper(period)] ELSE None

\* Every way of writing the code k in capital and small ASCII letters.
RECURSIVE CaseVariants(_)
CaseVariants(k) ==
    IF k = <<>> THEN {<<>>}
    ELSE {<<c>> \o t : c \in {Head(k), Head(k) + 32},
                       t \in CaseVariants(Tail(k))}

\* The characters of the other periods: letters of the codes in both
\* cases, a digit, the sharp s (U+00DF), whose capital is SS, and the long
\* s (U+017F), whose capital is S.
FreqChars == {ord("B"), ord("m"), ord("S"), ord("s"), ord("1"), 223, 383}

\* The periods get_freq_name is applied to: every key of the dict in every
\* mix of cases, and every short string over FreqChars.
FreqInputs ==
    UNION {CaseVariants(k) : k \in DOMAIN periods}
    \cup Strings(FreqChars, MaxPeriodLen)

InitFreq ==
    /\ MemoIdle /\ ThreadsIdle
    /\ arg \in FreqInputs
    /\ ret = <<>> /\ done = FALSE

ApplyFreq ==
    /\ ~done
    /\ ret' = get_freq_name(arg)
    /\ done' = TRUE
    /\ UNCHANGED <<memoVars, thrVars, arg>>

SpecFreq == InitFreq /\ [][ApplyFreq]_vars

\* The codes the specification lists, as their code points, with the name
\* the table has for each.
ListedCodes ==
    << <<<<66>>, "business day">>,
       <<<<67>>, "custom business day">>,
       <<<<68>>, "daily">>,
       <<<<87>>, "weekly">>,
       <<<<77>>, "monthly">>,
       <<<<66, 77>>, "business month end">>,
       <<<<67, 66, 77>>, "custom business month end">>,
       <<<<77, 83>>, "month start">>,
       <<<<66, 77, 83>>, "business month start">>,
       <<<<67, 66, 77, 83>>, "custom business month start">>,
       <<<<81>>, "quarterly">>,
       <<<<66, 81>>, "business quarter end">>,
       <<<<81, 83>>, "quarter start">>,
       <<<<66, 81, 83>>, "business quarter start">>,
       <<<<89>>, "yearly">>,
       <<<<65>>, "yearly">>,
       <<<<66, 65>>, "business year end">>,
       <<<<65, 83>>, "year start">>,
       <<<<66, 65, 83>>, "business year start">>,
       <<<<72>>, "hourly">>,
       <<<<84>>, "minutely">>,
       <<<<83>>, "secondly">>,
       <<<<76>>, "milliseonds">>,
       <<<<85>>, "microseconds">> >>

\* The name listed for the code s, None when s is not a listed code.
Listed(s) ==
    IF \E n \in 1..Len(ListedCodes) : ListedCodes[n][1] = s
    THEN ListedCodes[CHOOSE n \in 1..Len(ListedCodes) :
                         ListedCodes[n][1] = s][2]
    ELSE None

\* s with its small ASCII letters made capital, by the arithmetic of the
\* code points.
AsciiUpper(s) ==
    [i \in 1..Len(s) |-> IF s[i] \in 97..122 THEN s[i] - 32 ELSE s[i]]

\* C8: the result for p is the result for p.upper(); it is the table's
\* name when that is one of the listed codes and None for every other
\* string.  For a p of ASCII characters p.upper() is p with a-z replaced
\* by A-Z; the long s counts as a small s, its capital being S.
C8_FreqName ==
    done =>
        /\ ret = get_freq_name(upper(arg))
        /\ ret = Listed(upper(arg))
        /\ IsAscii(arg) => ret = Listed(AsciiUpper(arg))
        /\ arg = <<109, 383>> => ret = "month start"

\* get_freq_name has looked up "cBmS"-like input: a listed code written in
\* mixed case.
C8_Witness ==
    /\ done
    /\ Len(arg) = 4
    /\ arg # AsciiUpper(arg)
    /\ ret = "custom business month start"

(***************************************************************************)
(* Natural numbers of any size, for the significands the float arithmetic  *)
(* works on: a number is the sequence of its digits in radix Base, least   *)
(* significant first, without a leading zero digit (0 is <<>>).            *)
(***************************************************************************)
Base == 2^15

RECURSIVE BitLen(_)
BitLen(n) == IF n = 0 THEN 0 ELSE 1 + BitLen(n \div 2)

\* The bits of one digit.
LimbBits == BitLen(Base) - 1

Abs(n) == IF n < 0 THEN -n ELSE n
Max(a, b) == IF a < b THEN b ELSE a
Min(a, b) == IF a < b THEN a ELSE b

Limb(a, i) == IF i <= Len(a) THEN a[i] ELSE 0

\* a without its leading zero digits.
NNorm(a) ==
    SubSeq(a, 1, CHOOSE n \in 0..Len(a) :
                     /\ n = 0 \/ a[n] # 0
                     /\ \A j \in (n + 1)..Len(a) : a[j] = 0)

RECURSIVE NFromInt(_)
NFromInt(n) == IF n = 0 THEN <<>> ELSE <<n % Base>> \o NFromInt(n \div Base)

\* The carry into digit i of a + b + c (c is 0 or 1): a lower digit
\* produces one and every digit between passes it on.
Carry(a, b, c, i) ==
    \/ c = 1 /\ \A j \in 1..(i - 1) : Limb(a, j) + Limb(b, j) = Base - 1
    \/ \E j \in 1..(i - 1) :
           /\ Limb(a, j) + Limb(b, j) >= Base
           /\ \A n \in (j + 1)..(i - 1) : Limb(a, n) + Limb(b, n) = Base - 1

\* a + b + c for a carry c of 0 or 1
NAddC(a, b, c) ==
    NNorm([i \in 1..(Max(Len(a), Len(b)) + 1) |->
              (Limb(a, i) + Limb(b, i) + (IF Carry(a, b, c, i) THEN 1 ELSE 0))
                  % Base])
NAdd(a, b) == NAddC(a, b, 0)

\* The borrow from digit i of a - b: a lower digit of a is the smaller and
\* the digits between are equal.
Borrow(a, b, i) ==
    \E j \in 1..(i - 1) :
        /\ a[j] < Limb(b, j)
        /\ \A n \in (j + 1)..(i - 1) : a[n] = Limb(b, n)

\* a - b, for a >= b
NSub(a, b) ==
    NNorm([i \in 1..Len(a) |->
              (a[i] - Limb(b, i) - (IF Borrow(a, b, i) THEN 1 ELSE 0) + Base)
                  % Base])

\* -1, 0 or 1 as a < b, a = b or a > b: the highest digit that differs
\* decides.
NCmp(a, b) ==
    IF Len(a) # Len(b) THEN (IF Len(a) < Len(b) THEN -1 ELSE 1)
    ELSE IF a = b THEN 0
    ELSE LET i == CHOOSE n \in 1..Len(a) :
                      a[n] # b[n] /\ \A j \in (n + 1)..Len(a) : a[j] = b[j]
         IN  IF a[i] < b[i] THEN -1 ELSE 1

\* a * k for one digit k: the low halves of the digit products, plus their
\* high halves one place up.
NMulSmall(a, k) ==
    NAdd(NNorm([i \in 1..Len(a) |-> (a[i] * k) % Base]),
         NNorm([i \in 1..(Len(a) + 1) |->
                   IF i = 1 THEN 0 ELSE (a[i - 1] * k) \div Base]))

\* a * Base^n
NShiftLimbs(a, n) == IF a = <<>> THEN <<>> ELSE [i \in 1..n |-> 0] \o a

RECURSIVE NMul(_, _)
NMul(a, b) ==
    IF a = <<>> \/ b = <<>> THEN <<>>
    ELSE NAdd(NMulSmall(a, b[1]), NShiftLimbs(NMul(a, Tail(b)), 1))

\* a * 2^k and floor(a / 2^k)
NShl(a, k) == NShiftLimbs(NMulSmall(a, 2^(k % LimbBits)), k \div LimbBits)
NShrBits(a, j) ==
    NNorm([i \in 1..Len(a) |->
              (a[i] \div 2^j) + (Limb(a, i + 1) % 2^j) * 2^(LimbBits - j)])
NShr(a, k) ==
    IF k \div LimbBits >= Len(a) THEN <<>>
    ELSE NShrBits(SubSeq(a, (k \div LimbBits) + 1, Len(a)), k % LimbBits)

NPow2(k) == NShl(<<1>>, k)
NBitLen(a) ==
    IF a = <<>> THEN 0 ELSE LimbBits * (Len(a) - 1) + BitLen(a[Len(a)])
\* Bit i of a, bit 0 the lowest.
NBit(a, i) == (Limb(a, (i \div LimbBits) + 1) \div 2^(i % LimbBits)) % 2
NIsOdd(a) == a # <<>> /\ a[1] % 2 = 1

\* The number of zero bits a (not 0) ends with.
RECURSIVE Tz(_)
Tz(n) == IF n % 2 = 1 THEN 0 ELSE 1 + Tz(n \div 2)
NTz(a) ==
    LET i == CHOOSE n \in 1..Len(a) : a[n] # 0 /\ \A j \in 1..(n - 1) : a[j] = 0
    IN  LimbBits * (i - 1) + Tz(a[i])

\* Long division over the bits of a, p holding the quotient and the
\* remainder of the bits brought down so far: NDivBit brings down bit i - 1,
\* NDivStep the bits hi - 1 .. lo: the upper half of them first, which
\* leaves a remainder below b (the test makes TLC finish that half before
\* it starts on the lower one).
NDivBit(a, b, i, p) ==
    LET r2 == NAddC(p[2], p[2], NBit(a, i - 1))
    IN  IF NCmp(r2, b) >= 0
        THEN <<NAddC(p[1], p[1], 1), NSub(r2, b)>>
        ELSE <<NAddC(p[1], p[1], 0), r2>>

RECURSIVE NDivStep(_, _, _, _, _)
NDivStep(a, b, hi, lo, p) ==
    IF hi = lo THEN p
    ELSE IF hi = lo + 1 THEN NDivBit(a, b, hi, p)
    ELSE LET mid == (hi + lo) \div 2
             q == NDivStep(a, b, hi, mid, p)
         IN  IF NCmp(q[2], b) < 0 THEN NDivStep(a, b, mid, lo, q) ELSE q

\* <<floor(a / b), a mod b>> for b # 0. The bits of a above the lowest `low`
\* are fewer than those of b, a number below b: the division starts there.
NDivMod(a, b) ==
    LET low == Max(NBitLen(a) - NBitLen(b) + 1, 0)
    IN  NDivStep(a, b, Min(low, NBitLen(a)), 0, <<<<>>, NShr(a, low)>>)

(***************************************************************************)
(* Floating point.  Python's float is IEEE 754 binary64.  A finite float   *)
(* is [k |-> "fin", s, m, e]: the number (-1)^s * m * 2^e, m a natural     *)
(* number that is odd or 0 (e = 0 then), so that equal numbers of equal    *)
(* sign are equal records; zero keeps its sign.  The infinities are        *)
(* [k |-> "inf", s], not-a-number is [k |-> "nan"].  Every operation       *)
(* returns the exact result rounded to the nearest float, ties to the even *)
(* significand, with gradual underflow and overflow to infinity.           *)
(***************************************************************************)
\* The bits of a significand; the exponent of the smallest positive float,
\* 2^-1074; every finite float is below 2^1024.
Precision == 53
MinExp == -1074
MaxExp == 1024

Zero(s) == [k |-> "fin", s |-> s, m |-> <<>>, e |-> 0]
Inf(s) == [k |-> "inf", s |-> s, m |-> <<>>, e |-> 0]
NaN == [k |-> "nan", s |-> 0, m |-> <<>>, e |-> 0]
\* What float / 0.0 gives in Python: no float, the exception.
ZeroDivisionError == [k |-> "ZeroDivisionError", s |-> 0, m |-> <<>>, e |-> 0]

IsZero(a) == a.k = "fin" /\ a.m = <<>>
IsNaN(a) == a.k = "nan"

\* The record of (-1)^s * m * 2^e.
Canon(s, m, e) ==
    IF m = <<>> THEN Zero(s)
    ELSE [k |-> "fin", s |-> s, m |-> NShr(m, NTz(m)), e |-> e + NTz(m)]

\* The float nearest to (-1)^s * (m + f) * 2^e, where the fraction f is 0,
\* or strictly between 0 and 1 when sticky.  The t lowest bits of m do not
\* fit: those below the 53 highest, and those below 2^MinExp.
Round(s, m, e, sticky) ==
    LET t == Max(NBitLen(m) - Precision, MinExp - e)
        hi == IF t > 0 THEN NShr(m, t) ELSE m
        c == IF t > 0 THEN NCmp(NSub(m, NShl(hi, t)), NPow2(t - 1)) ELSE -1
        up == c > 0 \/ (c = 0 /\ (sticky \/ NIsOdd(hi)))
        r == IF up THEN NAddC(hi, <<>>, 1) ELSE hi
    IN  IF m = <<>> THEN Zero(s)
        ELSE IF NBitLen(r) + e + Max(t, 0) > MaxExp THEN Inf(s)
        ELSE Canon(s, r, e + Max(t, 0))

\* a + b for finite a and b, exactly: a record like a float's, its m of any
\* size.  Numbers that cancel give +0.0, two zeros of one sign keep it.
AddExact(a, b) ==
    LET e == Min(a.e, b.e)
        x == NShl(a.m, a.e - e)
        y == NShl(b.m, b.e - e)
    IN  IF IsZero(a) /\ IsZero(b) THEN Zero(IF a.s = b.s THEN a.s ELSE 0)
        ELSE IF IsZero(a) THEN b
        ELSE IF IsZero(b) THEN a
        ELSE IF a.s = b.s THEN Canon(a.s, NAdd(x, y), e)
        ELSE IF NCmp(x, y) = 0 THEN Zero(0)
        ELSE IF NCmp(x, y) > 0 THEN Canon(a.s, NSub(x, y), e)
        ELSE Canon(b.s, NSub(y, x), e)

\* The exponent of the power of two just above the magnitude of a finite a
\* that is not zero.
Top(a) == NBitLen(a.m) + a.e

\* b is less than an eighth of the last place of a (neither being zero):
\* a + b and a - b round to a.
Negligible(b, a) ==
    ~IsZero(a) /\ ~IsZero(b) /\ Top(b) < Top(a) - Precision - 2

\* -a
fneg(a) == IF IsNaN(a) THEN a ELSE [a EXCEPT !.s = 1 - a.s]

\* float + float, float - float, float * float, float / float
fadd(a, b) ==
    IF IsNaN(a) \/ IsNaN(b) THEN NaN
    ELSE IF a.k = "inf" THEN (IF b.k = "inf" /\ b.s # a.s THEN NaN ELSE a)
    ELSE IF b.k = "inf" THEN b
    ELSE IF Negligible(b, a) THEN a
    ELSE IF Negligible(a, b) THEN b
    ELSE LET x == AddExact(a, b) IN Round(x.s, x.m, x.e, FALSE)

fsub(a, b) == fadd(a, fneg(b))

fmul(a, b) ==
    IF IsNaN(a) \/ IsNaN(b) THEN NaN
    ELSE IF a.k = "inf" \/ b.k = "inf"
    THEN (IF IsZero(a) \/ IsZero(b) THEN NaN ELSE Inf((a.s + b.s) % 2))
    ELSE Round((a.s + b.s) % 2, NMul(a.m, b.m), a.e + b.e, FALSE)

\* The quotient of the significands is taken to 55 or 56 bits, the rest of
\* the division being the sticky fraction.
fdiv(a, b) ==
    IF IsZero(b) THEN ZeroDivisionError
    ELSE IF IsNaN(a) \/ IsNaN(b) THEN NaN
    ELSE IF a.k = "inf" THEN (IF b.k = "inf" THEN NaN ELSE Inf((a.s + b.s) % 2))
    ELSE IF b.k = "inf" \/ IsZero(a) THEN Zero((a.s + b.s) % 2)
    ELSE LET n == Precision + 2 + NBitLen(b.m) - NBitLen(a.m)
             qr == NDivMod(NShl(a.m, n), b.m)
         IN  Round((a.s + b.s) % 2, qr[1], a.e - b.e - n, qr[2] # <<>>)

\* -1, 0 or 1 as a < b, a == b or a > b, for a and b not NaN: by the
\* magnitudes (MagCmp, for finite numbers that are not zero) and the signs.
MagCmp(a, b) ==
    IF Top(a) # Top(b) THEN (IF Top(a) < Top(b) THEN -1 ELSE 1)
    ELSE NCmp(NShl(a.m, a.e - Min(a.e, b.e)), NShl(b.m, b.e - Min(a.e, b.e)))
FCmp(a, b) ==
    IF a.k = "inf" THEN (IF b.k = "inf" /\ b.s = a.s THEN 0 ELSE 1 - 2 * a.s)
    ELSE IF b.k = "inf" THEN 2 * b.s - 1
    ELSE IF IsZero(a) /\ IsZero(b) THEN 0
    ELSE IF IsZero(a) THEN 2 * b.s - 1
    ELSE IF IsZero(b) THEN 1 - 2 * a.s
    ELSE IF a.s # b.s THEN 1 - 2 * a.s
    ELSE (1 - 2 * a.s) * MagCmp(a, b)

\* a < b, a == b: false when either is NaN.
FLt(a, b) == ~IsNaN(a) /\ ~IsNaN(b) /\ FCmp(a, b) < 0
FEq(a, b) == ~IsNaN(a) /\ ~IsNaN(b) /\ FCmp(a, b) = 0

\* The floats float(n), n * 2.0**e, and n / d for integers n, e, d.
FromInt(n) == Canon(IF n < 0 THEN 1 ELSE 0, NFromInt(Abs(n)), 0)
Scaled(n, e) == Canon(IF n < 0 THEN 1 ELSE 0, NFromInt(Abs(n)), e)
Dec(n, d) == fdiv(FromInt(n), FromInt(d))

(***************************************************************************)
(* scale(val, src, dst).  The result is [raised, val]: the exception       *)
(* raised ("" when none) and the value returned.                           *)
(***************************************************************************)
Returns(v) == [raised |-> "", val |-> v]
Raises(e) == [raised |-> e, val |-> Zero(0)]

\* Line 169.
Interpolate(val, src, dst) ==
    LET q == fdiv(fsub(val, src[1]), fsub(src[2], src[1]))
    IN  IF q = ZeroDivisionError THEN Raises("ZeroDivisionError")
        ELSE Returns(fadd(fmul(q, fsub(dst[2], dst[1])), dst[1]))

\* A scale that does not clip.
scale_NoClip(val, src, dst) == Interpolate(val, src, dst)

\* A scale that clips above to the low bound.
scale_ClipLow(val, src, dst) ==
    IF FLt(val, src[1]) THEN Returns(dst[1])
    ELSE IF FLt(src[2], val) THEN Returns(dst[1])
    ELSE Interpolate(val, src, dst)

scale(val, src, dst) ==
    IF FLt(val, src[1]) THEN Returns(dst[1])
    ELSE IF FLt(src[2], val) THEN Returns(dst[2])
    ELSE Interpolate(val, src, dst)

\* The floats scale is applied to: small integers, the decimals -0.7 and
\* 0.2, +-1.5 * 2^1023, whose difference overflows, the infinities and
\* not-a-number.
ValVals ==
    {FromInt(-5), FromInt(0), FromInt(33), FromInt(99), FromInt(100), Inf(1),
     Inf(0), NaN}
SrcVals ==
    {Inf(1), FromInt(0), FromInt(99), Scaled(-3, 1022), Scaled(3, 1022)}
DstVals ==
    {Dec(-7, 10), Dec(2, 10), FromInt(-1), FromInt(1), Scaled(-3, 1022),
     Scaled(3, 1022), Inf(0)}

InitScale ==
    /\ MemoIdle /\ ThreadsIdle
    /\ arg \in [val : ValVals, src : SrcVals \X SrcVals, dst : DstVals \X DstVals]
    /\ ret = <<>> /\ done = FALSE

ApplyScale ==
    /\ ~done
    /\ ret' = scale(arg.val, arg.src, arg.dst)
    /\ done' = TRUE
    /\ UNCHANGED <<memoVars, thrVars, arg>>

SpecScale == InitScale /\ [][ApplyScale]_vars

\* The two results are the same: equal as floats, or both not-a-number.
Same(a, b) == FEq(a, b) \/ (IsNaN(a) /\ IsNaN(b))

\* a <= b, a >= b as Python compares floats.
FLe(a, b) == FLt(a, b) \/ FEq(a, b)

\* The value of dst_lo + (val - src_lo) / (src_hi - src_lo) * (dst_hi -
\* dst_lo), every operation a float operation.
Formula(a) ==
    fadd(a.dst[1],
         fmul(fdiv(fsub(a.val, a.src[1]), fsub(a.src[2], a.src[1])),
              fsub(a.dst[2], a.dst[1])))

\* C4 as stated: with src_lo < src_hi, scale returns dst_lo at src_lo and
\* below it, dst_hi at src_hi and above it, and the value of the formula
\* in between.
C4_AsStated ==
    (done /\ FLt(arg.src[1], arg.src[2])) =>
        /\ ret.raised = ""
        /\ FLe(arg.val, arg.src[1]) => FEq(ret.val, arg.dst[1])
        /\ FLe(arg.src[2], arg.val) => FEq(ret.val, arg.dst[2])
        /\ (FLe(arg.src[1], arg.val) /\ FLe(arg.val, arg.src[2])) =>
               Same(ret.val, Formula(arg))

\* The difference b - a of two finite floats is a float: computing it
\* rounds nothing.
ExactDiff(b, a) ==
    /\ a.k = "fin" /\ b.k = "fin"
    /\ fsub(b, a) = AddExact(b, fneg(a))

\* C4, amended: for floats, the infinities included, with src_lo < src_hi,
\* scale returns dst_lo below src_lo and dst_hi above src_hi, and in between
\* the value of the formula computed in floats.  At val = src_lo, src_lo
\* finite, that is dst_lo when dst_hi - dst_lo is finite.  At val = src_hi
\* it is, when src_hi - src_lo is finite, the rounded sum of dst_lo and the
\* rounded difference dst_hi - dst_lo: dst_hi when that difference is a
\* float, and possibly another number when it is not.
C4_Scale ==
    (done /\ FLt(arg.src[1], arg.src[2])) =>
        /\ ret.raised = ""
        /\ FLt(arg.val, arg.src[1]) => ret.val = arg.dst[1]
        /\ FLt(arg.src[2], arg.val) => ret.val = arg.dst[2]
        /\ (/\ FEq(arg.val, arg.src[1])
            /\ arg.src[1].k = "fin"
            /\ fsub(arg.dst[2], arg.dst[1]).k = "fin")
               => FEq(ret.val, arg.dst[1])
        /\ (FEq(arg.val, arg.src[2]) /\ fsub(arg.src[2], arg.src[1]).k = "fin")
               => /\ Same(ret.val,
                          fadd(arg.dst[1], fsub(arg.dst[2], arg.dst[1])))
                  /\ ExactDiff(arg.dst[2], arg.dst[1]) =>
                         FEq(ret.val, arg.dst[2])
        /\ (FLe(arg.src[1], arg.val) /\ FLe(arg.val, arg.src[2])) =>
               Same(ret.val, Formula(arg))

\* scale has been applied at val = src_hi to a destination range whose
\* width is finite and not a float, and has returned another number than
\* dst_hi.
C4_Witness ==
    /\ done
    /\ FLt(arg.src[1], arg.src[2]) /\ FEq(arg.val, arg.src[2])
    /\ fsub(arg.src[2], arg.src[1]).k = "fin"
    /\ fsub(arg.dst[2], arg.dst[1]).k = "fin"
    /\ ~ExactDiff(arg.dst[2], arg.dst[1])
    /\ ret.raised = "" /\ ret.val.k = "fin" /\ ~FEq(ret.val, arg.dst[2])

\* C5 as stated: with equal source bounds scale raises ZeroDivisionError
\* for every val and every destination range.
C5_AsStated ==
    (done /\ FEq(arg.src[1], arg.src[2])) => ret.raised = "ZeroDivisionError"

\* C5, amended: with equal finite source bounds scale raises
\* ZeroDivisionError exactly when val is neither below nor above the bound,
\* that is when val equals it or is not-a-number; a val below it returns
\* dst_lo and a val above it returns dst_hi, without error.
C5_ZeroDivision ==
    (done /\ FEq(arg.src[1], arg.src[2]) /\ arg.src[1].k = "fin") =>
        /\ ret.raised = "ZeroDivisionError" <=>
               (FEq(arg.val, arg.src[1]) \/ IsNaN(arg.val))
        /\ FLt(arg.val, arg.src[1]) => ret = Returns(arg.dst[1])
        /\ FLt(arg.src[2], arg.val) => ret = Returns(arg.dst[2])

\* scale has raised on equal source bounds, for a val equal to them.
C5_Witness ==
    /\ done
    /\ FEq(arg.src[1], arg.src[2]) /\ arg.src[1].k = "fin"
    /\ FEq(arg.val, arg.src[1])
    /\ ~FEq(arg.dst[1], arg.dst[2])
    /\ ret.raised = "ZeroDivisionError"

=============================================================================
